---- MODULE Spec2Model ----
(***************************************************************************)
(* The financial decision engine of WealthTimeMachine                      *)
(* (src/backend/financial_model.py, class FinancialDecisionModel).         *)
(*                                                                         *)
(* Number representation.  The engine computes on Python floats; the       *)
(* model computes on integers:                                             *)
(*   - money is counted in thousands of yuan (1000 = 1,000,000 yuan);      *)
(*   - annual rates of the tier table are in percent (5 = 0.05);           *)
(*   - a value that the code rounds with round(x, k) is held as the        *)
(*     integer x * 10^k (risk_score 63 = 0.63, stocks 203 = 0.203);        *)
(*   - every other real is held in fixed point, floor(x * FP), each        *)
(*     operation rounding down to a multiple of 1/FP.                      *)
(***************************************************************************)
EXTENDS Integers, Sequences, FiniteSets, TLC

VARIABLES
    pc,               \* position of the call being modelled
    ml_model,         \* self.ml_model: "none", "untrained" or "trained"
    scaler,           \* self.scaler: "none" or "fitted"
    goal,             \* profile: goal text, a sequence of characters
    current_asset,    \* profile / argument current_asset
    monthly_income,   \* profile / argument monthly_income
    age,              \* profile / argument age
    risk_level,       \* argument risk_level (tier key)
    target_amount,    \* argument target_amount
    target_months,    \* argument target_months / time_horizon / months
    confidence_level, \* argument confidence_level, in percent
    risk_assessment,  \* dict returned by calculate_risk_tolerance
    assessments,      \* the dicts returned by calculate_risk_tolerance so far
    savings_plan,     \* dict returned by calculate_optimal_savings_rate
    metrics,          \* values returned by the calculate_* metric methods
    allocation,       \* dict returned by optimize_asset_allocation
    months,           \* local `months` of the horizon search loop
    accumulated,      \* local `accumulated` of the horizon search loop
    simulations,      \* argument simulations of monte_carlo_simulation
    mc_monthly_save,  \* argument monthly_save of monte_carlo_simulation
    trials,           \* passes made of the loop over range(simulations)
    final_values,     \* local final_values of monte_carlo_simulation
    mc_result,        \* dict returned by monte_carlo_simulation
    targets,          \* goal -> amount, the calculate_target_amount calls made
    reason,           \* text returned by _generate_recommendation_reason
    raised,           \* the operations called that raised an exception
    rng,              \* state of the generator of the random module
    requests,         \* request -> the locals of its call, or its response
    recommendations,  \* local `recommendations` of the recommend-path endpoint
    story_cache,      \* the story cache file of the request's key, or None
    image_cache,      \* chapter index -> the image cache file of the key, or None
    events,           \* the image events the story stream has yielded
    chapter_index     \* loop variable i of the story stream's chapter loop

vars == <<pc, ml_model, scaler, goal, current_asset, monthly_income, age, risk_level,
          target_amount, target_months, confidence_level, risk_assessment,
          assessments, savings_plan, metrics, allocation, months, accumulated,
          simulations, mc_monthly_save, trials, final_values, mc_result,
          targets, reason, raised, rng, requests, recommendations,
          story_cache, image_cache, events, chapter_index>>

\* Python's None.
None == [none |-> TRUE]

Min(a, b) == IF a <= b THEN a ELSE b
Max(a, b) == IF a >= b THEN a ELSE b
Abs(a) == IF a < 0 THEN -a ELSE a

\* <<floor(n * 10^k / d), remainder>> by long division, n >= 0, d > 0.
RECURSIVE DivDigits(_, _, _)
DivDigits(n, d, k) ==
    IF k = 0 THEN <<n \div d, n % d>>
    ELSE LET prev == DivDigits(n, d, k - 1)
         IN  <<prev[1] * 10 + (prev[2] * 10) \div d, (prev[2] * 10) % d>>

\* round(n / d, k) as the integer round(n/d * 10^k), n >= 0, d > 0.  Python
\* rounds the double nearest to n/d; the model rounds the exact quotient and
\* takes a decimal tie upwards, which is what the doubles of the tier table
\* give (0.065 -> 0.07, 15.675 -> 15.68).
Round(n, d, k) ==
    LET qr == DivDigits(n, d, k)
    IN  IF 2 * qr[2] >= d THEN qr[1] + 1 ELSE qr[1]

(***************************************************************************)
(* Fixed point: a real x is held as floor(x * FP).                         *)
(***************************************************************************)
FP == 1000000

FPHalf == 1000

\* x * y in fixed point, floor(x * y / FP), without forming x * y (which may
\* exceed the integer range): both factors are split at FPHalf = sqrt(FP).
FMul(x, y) ==
    LET x1 == x \div FPHalf
        x0 == x % FPHalf
        y1 == y \div FPHalf
        y0 == y % FPHalf
    IN  x1 * y1 + (x1 * y0 + x0 * y1 + (x0 * y0) \div FPHalf) \div FPHalf

\* n / d in fixed point, floor(n * FP / d), n >= 0, d > 0.
FDiv(n, d) == DivDigits(n, d, 6)[1]

\* x ** k for a natural k, in fixed point.
RECURSIVE FPow(_, _)
FPow(x, k) == IF k = 0 THEN FP ELSE FMul(FPow(x, k - 1), x)

\* The largest r in lo..hi with r ** k <= x, by bisection (lo ** k <= x).
RECURSIVE RootSearch(_, _, _, _)
RootSearch(x, k, lo, hi) ==
    IF lo >= hi THEN lo
    ELSE LET mid == (lo + hi + 1) \div 2
         IN  IF FPow(mid, k) <= x
             THEN RootSearch(x, k, mid, hi)
             ELSE RootSearch(x, k, lo, mid - 1)

\* x ** (1/k) in fixed point, 0 <= x <= 2: the root lies in 0..max(1, x).
Root(x, k) == IF x = 0 THEN 0 ELSE RootSearch(x, k, 0, Max(FP, x))

\* log base 5 of x, for FP <= x < 5 * FP, to `bits` binary digits: squaring
\* doubles the logarithm, and a square of 5 or more contributes the digit 1.
RECURSIVE Log5Bits(_, _)
Log5Bits(x, bits) ==
    IF bits = 0 THEN 0
    ELSE LET sq == FMul(x, x)
         IN  IF sq >= 5 * FP
             THEN (FP + Log5Bits(sq \div 5, bits - 1)) \div 2
             ELSE Log5Bits(sq, bits - 1) \div 2

LogBits == 24

\* math.log(x) / math.log(5) in fixed point, x >= 1.
Log5(x) == IF x >= 5 * FP THEN FP ELSE Log5Bits(x, LogBits)

(***************************************************************************)
(* __init__: the risk tier table.                                          *)
(***************************************************************************)
Tiers == {"low", "medium", "high"}

risk_profiles ==
    [t \in Tiers |->
        CASE t = "low" ->
               [expected_return |-> 5, volatility |-> 3, max_drawdown |-> 5,
                asset_allocation |-> [bonds |-> 70, stocks |-> 20, cash |-> 10]]
          [] t = "medium" ->
               [expected_return |-> 7, volatility |-> 8, max_drawdown |-> 15,
                asset_allocation |-> [bonds |-> 50, stocks |-> 40, cash |-> 10]]
          [] t = "high" ->
               [expected_return |-> 9, volatility |-> 15, max_drawdown |-> 30,
                asset_allocation |-> [bonds |-> 30, stocks |-> 60, cash |-> 10]]]

(***************************************************************************)
(* optimize_asset_allocation.                                              *)
(***************************************************************************)
\* time_factor without its cap: time_horizon / 120.
TimeFactor_uncapped(time_horizon) == FDiv(time_horizon, 120)

\* time_factor = min(1.0, time_horizon / 120).
TimeFactor(time_horizon) == Min(FP, FDiv(time_horizon, 120))

\* asset_ratio = min(1.0, current_asset / target_amount) if target_amount > 0
\* else 0.
AssetRatio(asset, target) ==
    IF target > 0 THEN Min(FP, FDiv(asset, target)) ELSE 0

\* stocks_adj, bonds_adj and cash_adj.
AdjustedWeights(tier, asset, target, time_horizon) ==
    LET base == risk_profiles[tier].asset_allocation
        time_factor == TimeFactor(time_horizon)
        conservative_factor == (AssetRatio(asset, target) * 3) \div 10
    IN  [stocks |-> FMul(FMul(FDiv(base.stocks, 100), FP + time_factor \div 5),
                         FP - conservative_factor),
         bonds  |-> FMul(FMul(FDiv(base.bonds, 100), FP - time_factor \div 10),
                         FP + conservative_factor),
         cash   |-> FDiv(base.cash, 100)]

\* A weight of the returned dict: round(adj / total, 3), in thousandths.
NormalisedWeight(adj, total) == Round(adj, total, 3)

optimize_asset_allocation(tier, asset, target, time_horizon) ==
    LET adj   == AdjustedWeights(tier, asset, target, time_horizon)
        total == adj.stocks + adj.bonds + adj.cash
    IN  [stocks |-> NormalisedWeight(adj.stocks, total),
         bonds  |-> NormalisedWeight(adj.bonds, total),
         cash   |-> NormalisedWeight(adj.cash, total)]

(***************************************************************************)
(* calculate_target_amount.  A goal is a sequence of characters; a Chinese *)
(* character is written as its pinyin: "fang" is U+623F (house), "che"     *)
(* U+8F66 (car), "jiao" "yu" U+6559 U+80B2 (education), "zi" "you"         *)
(* U+81EA U+7531 (freedom), "tui" "xiu" U+9000 U+4F11 (retirement),        *)
(* "mai" U+4E70 (buy).                                                     *)
(***************************************************************************)
\* Python's `word in text` on strings.
Contains(text, word) ==
    \E i \in 1..(Len(text) - Len(word) + 1) :
        SubSeq(text, i, i + Len(word) - 1) = word

HouseAmount == 1000
CarAmount == 300
EducationAmount == 500
FreedomAmount == 2000
DefaultAmount == 500

\* calculate_target_amount with the car bucket returning the default amount.
calculate_target_amount_car_default(g) ==
    IF Contains(g, <<"mai", "fang">>) \/ Contains(g, <<"fang">>) THEN HouseAmount
    ELSE IF Contains(g, <<"zi", "you">>) \/ Contains(g, <<"tui", "xiu">>)
         THEN FreedomAmount
    ELSE DefaultAmount

calculate_target_amount(g) ==
    IF Contains(g, <<"mai", "fang">>) \/ Contains(g, <<"fang">>) THEN HouseAmount
    ELSE IF Contains(g, <<"mai", "che">>) \/ Contains(g, <<"che">>) THEN CarAmount
    ELSE IF Contains(g, <<"jiao", "yu">>) THEN EducationAmount
    ELSE IF Contains(g, <<"zi", "you">>) \/ Contains(g, <<"tui", "xiu">>)
         THEN FreedomAmount
    ELSE DefaultAmount

(***************************************************************************)
(* calculate_risk_tolerance and _calculate_risk_score_traditional.         *)
(***************************************************************************)
\* asset_coverage = max(0, min(2.0, current_asset / target_amount)), 0 for a
\* target of 0.
AssetCoverage(asset, target) ==
    IF target > 0 THEN Max(0, Min(2 * FP, FDiv(asset, target))) ELSE 0

\* months_to_target as a fraction <<numerator, denominator>>:
\* gap / (monthly_income * 0.3), or the sentinel 999 without savings capacity.
MonthsToTarget(gap, income) ==
    IF gap <= 0 THEN <<999, 1>>
    ELSE IF 3 * income > 0 THEN <<10 * gap, 3 * income>>
    ELSE <<999, 1>>

\* time_pressure with 60 / months_to_target in the band of 60 months and
\* more as well.
TimePressure_60_everywhere(gap, income) ==
    LET m == MonthsToTarget(gap, income)
    IN  IF gap <= 0 THEN 0
        ELSE IF m[1] <= 0 THEN FP
        ELSE IF m[1] < 12 * m[2] THEN FP
        ELSE Min(FP, FDiv(60 * m[2], m[1]))

\* time_pressure.
TimePressure(gap, income) ==
    LET m == MonthsToTarget(gap, income)
    IN  IF gap <= 0 THEN 0
        ELSE IF m[1] <= 0 THEN FP
        ELSE IF m[1] < 12 * m[2] THEN FP
        ELSE IF m[1] < 60 * m[2] THEN Min(FP, FDiv(60 * m[2], m[1]))
        ELSE Min(FP, FDiv(100 * m[2], m[1]))

\* age_factor = max(0.5, 1 - (age - 25) / 50).
AgeFactor(a) == Max(FP \div 2, ((75 - a) * FP) \div 50)

\* income_stability = min(1.0, log(1 + monthly_income / 5000) / log(5)).
IncomeStability(income) == Min(FP, Log5(FP + FDiv(income, 5)))

\* The four factors and the gap of a profile.
RiskFactors(g, asset, income, a) ==
    LET target == calculate_target_amount(g)
        gap    == target - asset
    IN  [gap |-> gap,
         asset_coverage |-> AssetCoverage(asset, target),
         time_pressure |-> TimePressure(gap, income),
         age_factor |-> AgeFactor(a),
         income_stability |-> IncomeStability(income)]

\* max(0.0, min(1.0, risk_score)).
ClampScore(score) == Max(0, Min(FP, score))

\* The score as the arithmetic mean of the four factors.
TraditionalScore_arithmetic_mean(f) ==
    IF f.gap <= 0
    THEN Min((4 * FP) \div 10,
             FMul(FMul(Root(f.asset_coverage, 10), Root(f.age_factor, 5)),
                  FMul(Root(f.income_stability, 5), Root(FP \div 2, 2))))
    ELSE LET score ==
                 (Min(FP, f.asset_coverage) + f.time_pressure
                  + f.age_factor + f.income_stability) \div 4
         IN  IF f.time_pressure > (7 * FP) \div 10
                /\ f.asset_coverage < (3 * FP) \div 10
             THEN Min(FP, (score * 12) \div 10)
             ELSE score

\* The score before the final clamp.
TraditionalScore(f) ==
    IF f.gap <= 0
    THEN Min((4 * FP) \div 10,
             FMul(FMul(Root(f.asset_coverage, 10), Root(f.age_factor, 5)),
                  FMul(Root(f.income_stability, 5), Root(FP \div 2, 2))))
    ELSE LET score ==
                 FMul(FMul(Root(Min(FP, f.asset_coverage), 4),
                           Root(f.time_pressure, 4)),
                      FMul(Root(f.age_factor, 4), Root(f.income_stability, 4)))
         IN  IF f.time_pressure > (7 * FP) \div 10
                /\ f.asset_coverage < (3 * FP) \div 10
             THEN Min(FP, (score * 12) \div 10)
             ELSE score

\* _calculate_risk_score_traditional without the clamp of line 338.
_calculate_risk_score_traditional_unclamped(f) == TraditionalScore(f)

_calculate_risk_score_traditional(f) == ClampScore(TraditionalScore(f))

\* risk_level from the unrounded risk_score.
RiskLevel(score) ==
    IF score >= (7 * FP) \div 10 THEN "high"
    ELSE IF score >= (4 * FP) \div 10 THEN "medium"
    ELSE "low"

\* The dict calculate_risk_tolerance returns for a score.
Assessment(f, score, ml_enhanced) ==
    [risk_level |-> RiskLevel(score),
     risk_score |-> Round(score, FP, 2),
     ml_enhanced |-> ml_enhanced,
     factors |-> [asset_coverage |-> Round(Min(FP, f.asset_coverage), FP, 2),
                  time_pressure |-> Round(f.time_pressure, FP, 2),
                  age_factor |-> Round(f.age_factor, FP, 2),
                  income_stability |-> Round(f.income_stability, FP, 2)]]

(***************************************************************************)
(* calculate_optimal_savings_rate.  Inside the method money is held in     *)
(* fen (0.01 yuan, the precision of the returned round(x, 2)); the         *)
(* monthly return of a tier with expected_return k percent is k / 1200.    *)
(***************************************************************************)
\* Fen in a thousand yuan.
Fen == 100000

\* target_months = None.
NoHorizon == -1

\* The cap of the horizon search, in months.
MaxSearchMonths == 600

\* floor(x * k / 1200) without forming x * k.
MonthlyInterest(x, k) == (x \div 1200) * k + ((x % 1200) * k) \div 1200

\* One pass of the loop body: accumulated * (1 + monthly_return) + monthly_save.
Compound(acc, k, save) == acc + MonthlyInterest(acc, k) + save

\* The annuity factor is held in units of 1 / AnnuityScale.
AnnuityScale == 100000

\* <<(1 + r) ** n, ((1 + r) ** n - 1) / r>> for r = k / 1200 > 0, the first
\* in fixed point and the second in units of 1 / AnnuityScale.  Both are evaluated by
\* doubling, G(2m) = G(m)^2 and A(2m) = A(m) * (1 + G(m)), G(n+1) =
\* G(n) * (1 + r) (to the nearest unit) and A(n+1) = A(n) + G(n), which keeps
\* the rounding error of the integers near that of the code's doubles.
RECURSIVE GrowthAnnuity(_, _)
GrowthAnnuity(k, n) ==
    IF n = 0 THEN <<FP, 0>>
    ELSE IF n % 2 = 0
         THEN LET h == GrowthAnnuity(k, n \div 2)
              IN  <<FMul(h[1], h[1]), h[2] + FMul(h[2], h[1])>>
         ELSE LET g == GrowthAnnuity(k, n - 1)
              IN  <<g[1] + Round(g[1] * k, 1200, 0),
                    g[2] + g[1] \div (FP \div AnnuityScale)>>

\* (1 + monthly_return) ** n.
Growth(k, n) == GrowthAnnuity(k, n)[1]

\* annuity_factor = ((1 + r) ** n - 1) / r if r > 0 else n.
AnnuityFactor(k, n) ==
    IF k > 0 THEN GrowthAnnuity(k, n)[2] ELSE n * AnnuityScale

\* x * annuity_factor, floor(x * af / AnnuityScale), without forming the
\* product of the two integers: both are split at AnnuityScale, and the low
\* part of af once more at 1000.
TimesAnnuity(x, af) ==
    LET x1 == x \div AnnuityScale
        x0 == x % AnnuityScale
        a1 == af \div AnnuityScale
        a0 == af % AnnuityScale
        u  == a0 \div 1000
        v  == a0 % 1000
    IN  x1 * a1 * AnnuityScale + x1 * a0 + x0 * a1
        + (x0 * u * 10 + (x0 * v) \div 100) \div 1000

\* Lines 396-405: the monthly saving that reaches the target in n months.
RequiredSave(asset, target, k, n) ==
    IF n = 0 THEN 0
    ELSE LET future_value_pv == FMul(asset, Growth(k, n))
             annuity_factor == AnnuityFactor(k, n)
             monthly_save ==
                 IF annuity_factor > 0
                 THEN IF target >= future_value_pv
                      THEN IF annuity_factor < 2 * AnnuityScale * 1000
                           THEN DivDigits(target - future_value_pv,
                                          annuity_factor, 5)[1]
                           ELSE DivDigits(target - future_value_pv,
                                          annuity_factor \div 10, 4)[1]
                      ELSE -1  \* a negative quotient, raised to 0 below
                 ELSE (target - asset) \div n
         IN  Max(0, monthly_save)

\* The clamp without its lower end: min(0.6, monthly_save / monthly_income).
ClampRate_no_floor(rate) == Min((6 * FP) \div 10, rate)

\* The clamp without its upper end: max(0.2, monthly_save / monthly_income).
ClampRate_no_ceiling(rate) == Max((2 * FP) \div 10, rate)

\* savings_rate = min(0.6, max(0.2, monthly_save / monthly_income)).
ClampRate(rate) == Min((6 * FP) \div 10, Max((2 * FP) \div 10, rate))

\* The returned dict without the target_months == 0 test of line 408.
SavingsPlan_rate_at_zero_months(asset, income, k, n, save) ==
    LET zero == income = 0
        savings_rate == IF zero THEN 0 ELSE ClampRate(FDiv(save, income))
        monthly_save == IF zero THEN 0 ELSE FMul(income, savings_rate)
        expected_final_amount ==
            IF n = 0 THEN asset
            ELSE FMul(asset, Growth(k, n))
                 + TimesAnnuity(monthly_save, AnnuityFactor(k, n))
    IN  [monthly_save |-> monthly_save,
         savings_rate |-> Round(savings_rate, FP, 2),
         target_months |-> n,
         expected_final_amount |-> expected_final_amount]

\* The plan with the saving of the annuity equation as it came, not
\* re-derived from the clamped rate.
SavingsPlan_save_not_rederived(asset, income, k, n, save) ==
    LET zero == n = 0 \/ income = 0
        savings_rate == IF zero THEN 0 ELSE ClampRate(FDiv(save, income))
        monthly_save == IF zero THEN 0 ELSE save
        expected_final_amount ==
            IF n = 0 THEN asset
            ELSE FMul(asset, Growth(k, n))
                 + TimesAnnuity(monthly_save, AnnuityFactor(k, n))
    IN  [monthly_save |-> monthly_save,
         savings_rate |-> Round(savings_rate, FP, 2),
         target_months |-> n,
         expected_final_amount |-> expected_final_amount]

\* The returned dict with the asset taken as it is, not compounded over n.
SavingsPlan_asset_not_compounded(asset, income, k, n, save) ==
    LET zero == n = 0 \/ income = 0
        savings_rate == IF zero THEN 0 ELSE ClampRate(FDiv(save, income))
        monthly_save == IF zero THEN 0 ELSE FMul(income, savings_rate)
        expected_final_amount ==
            IF n = 0 THEN asset
            ELSE asset + TimesAnnuity(monthly_save, AnnuityFactor(k, n))
    IN  [monthly_save |-> monthly_save,
         savings_rate |-> Round(savings_rate, FP, 2),
         target_months |-> n,
         expected_final_amount |-> expected_final_amount]

\* Lines 407-434: the returned dict, from target_months = n and the
\* monthly_save computed so far.
SavingsPlan(asset, income, k, n, save) ==
    LET zero == n = 0 \/ income = 0
        savings_rate == IF zero THEN 0 ELSE ClampRate(FDiv(save, income))
        monthly_save == IF zero THEN 0 ELSE FMul(income, savings_rate)
        expected_final_amount ==
            IF n = 0 THEN asset
            ELSE FMul(asset, Growth(k, n))
                 + TimesAnnuity(monthly_save, AnnuityFactor(k, n))
    IN  [monthly_save |-> monthly_save,
         savings_rate |-> Round(savings_rate, FP, 2),
         target_months |-> n,
         expected_final_amount |-> expected_final_amount]

(***************************************************************************)
(* calculate_sharpe_ratio, calculate_sortino_ratio, calculate_var,         *)
(* calculate_cvar.  Each returns round(x, 2), held in hundredths.          *)
(***************************************************************************)
\* risk_free_rate = 0.03, in percent.
RiskFreeRate == 3

\* Lines 455-457: excess_return / volatility if volatility > 0 else 0.
SharpeRatio(expected_return, volatility) ==
    IF volatility > 0
    THEN Round(expected_return - RiskFreeRate, volatility, 2)
    ELSE 0

calculate_sharpe_ratio(tier) ==
    SharpeRatio(risk_profiles[tier].expected_return,
                risk_profiles[tier].volatility)

\* downside_volatility = volatility * 0.6.
SortinoRatio(expected_return, volatility) ==
    IF volatility * 6 > 0
    THEN Round((expected_return - RiskFreeRate) * 10, volatility * 6, 2)
    ELSE 0

calculate_sortino_ratio(tier) ==
    SortinoRatio(risk_profiles[tier].expected_return,
                 risk_profiles[tier].volatility)

\* z_score, in thousandths; confidence_level in percent.
ZScore(confidence) ==
    IF confidence = 95 THEN 1645 ELSE IF confidence = 99 THEN 2326 ELSE 1280

\* calculate_var without the expected return: z_score * volatility alone.
calculate_var_no_return(tier, confidence) ==
    Round(ZScore(confidence) * risk_profiles[tier].volatility, 1000, 2)

\* round(abs(-expected_return + z_score * volatility) * 100, 2).
calculate_var(tier, confidence) ==
    LET profile == risk_profiles[tier]
        var == ZScore(confidence) * profile.volatility
               - 1000 * profile.expected_return
    IN  Round(Abs(var), 1000, 2)

\* calculate_cvar with the factor 1.2 in place of 1.3.
calculate_cvar_factor_12(tier, confidence) ==
    Round(calculate_var(tier, confidence) * 12, 10, 0)

\* round(calculate_var(...) / 100 * 1.3 * 100, 2).
calculate_cvar(tier, confidence) ==
    Round(calculate_var(tier, confidence) * 13, 10, 0)

(***************************************************************************)
(* monte_carlo_simulation.  Money is held in fen.  final_values is held as *)
(* the bag of its elements (value -> number of occurrences): the list is   *)
(* only read after final_values.sort() and by sum(), and both depend on    *)
(* the bag alone.                                                          *)
(***************************************************************************)
\* final_values.append(asset).
Append1(values, asset) ==
    IF asset \in DOMAIN values
    THEN [values EXCEPT ![asset] = @ + 1]
    ELSE values @@ (asset :> 1)

\* The number of elements of final_values below v.
Below(values, v) ==
    LET RECURSIVE Count(_)
        Count(S) == IF S = {} THEN 0
                    ELSE LET u == CHOOSE u \in S : TRUE
                         IN  values[u] + Count(S \ {u})
    IN  Count({u \in DOMAIN values : u < v})

\* final_values[i] after a sort into descending order.
SortedAt_descending(values, i) ==
    CHOOSE v \in DOMAIN values :
        LET above == Below(values, 1 + CHOOSE m \in DOMAIN values :
                                           \A u \in DOMAIN values : u <= m)
                     - Below(values, v) - values[v]
        IN  above <= i /\ i < above + values[v]

\* final_values[i] after final_values.sort().
SortedAt(values, i) ==
    CHOOSE v \in DOMAIN values :
        Below(values, v) <= i /\ i < Below(values, v) + values[v]

\* sum(final_values).
SumValues(values) ==
    LET RECURSIVE Sum(_)
        Sum(S) == IF S = {} THEN 0
                  ELSE LET u == CHOOSE u \in S : TRUE
                       IN  u * values[u] + Sum(S \ {u})
    IN  Sum(DOMAIN values)

\* Lines 553-558: one trial; returns[m] is the m-th random_return, in
\* percent per month.  asset * random_return is floor(asset * r / 100),
\* taken over the hundreds and the rest of asset.
\* asset * (1 + random_return) + monthly_save.
MonthStep(asset, save, r) ==
    asset + (asset \div 100) * r + ((asset % 100) * r) \div 100 + save

\* The months m..Len(returns) in order, the range halved at each level; the
\* asset after the first half is a value before the second half starts.
RunMonths(asset, save, returns, m) ==
    LET RECURSIVE Run(_, _, _)
        Run(a, lo, hi) ==
            IF lo > hi THEN a
            ELSE IF lo = hi THEN MonthStep(a, save, returns[lo])
            ELSE LET mid == (lo + hi) \div 2
                     half == Run(a, lo, mid)
                 IN  IF half \in Int THEN Run(half, mid + 1, hi) ELSE half
    IN  Run(asset, m, Len(returns))

\* Lines 561-575: the statistics of the sorted outcomes of n trials.
Statistics(values, n) ==
    LET median == SortedAt(values, n \div 2)
        p5 == SortedAt(values, (n * 5) \div 100)
        p95 == SortedAt(values, (n * 95) \div 100)
        mean == Round(SumValues(values), n, 0)
    IN  [expected_value |-> mean, median |-> median, p5 |-> p5, p95 |-> p95,
         confidence_interval |-> <<p5, p95>>]

(***************************************************************************)
(* _generate_recommendation_reason.  The text is held as the sequence of   *)
(* its parts: the name of the tier, then up to three reasons, a reason     *)
(* that quotes the coverage percentage being a pair.                       *)
(***************************************************************************)
\* risk_name, the dict subscripted at line 750.
risk_name == [low |-> "wenjian", medium |-> "pingheng", high |-> "jijin"]

\* Lines 752-781: the reasons, in the order they are appended; the factors
\* are the rounded ones of the assessment, in hundredths.
Reasons(factors) ==
    LET asset_coverage_pct == factors.asset_coverage
        time_pressure_pct == factors.time_pressure
        coverage ==
            IF asset_coverage_pct > 50
            THEN <<<<"coverage_good", asset_coverage_pct>>>>
            ELSE IF asset_coverage_pct < 20 THEN <<"coverage_low">>
            ELSE <<<<"coverage_some", asset_coverage_pct>>>>
        time ==
            IF time_pressure_pct > 70 THEN <<"time_tight">>
            ELSE IF time_pressure_pct < 30 THEN <<"time_ample">>
            ELSE <<"time_moderate">>
        years ==
            IF factors.age_factor > 80 THEN <<"young">>
            ELSE IF factors.age_factor < 50 THEN <<"older">>
            ELSE <<>>
        income ==
            IF factors.income_stability > 70 THEN <<"income_stable">>
            ELSE IF factors.income_stability < 50 THEN <<"income_unstable">>
            ELSE <<>>
    IN  coverage \o time \o years \o income

\* The tier's name and every reason, none left out.
_generate_recommendation_reason_all_reasons(assessment, tier) ==
    <<risk_name[tier]>> \o Reasons(assessment.factors)

\* Lines 783-790: the tier's name and the first three reasons.
_generate_recommendation_reason(assessment, tier) ==
    LET reasons == Reasons(assessment.factors)
    IN  <<risk_name[tier]>> \o SubSeq(reasons, 1, Min(3, Len(reasons)))

(***************************************************************************)
(* Subscripting a dict keyed by tier: self.risk_profiles[risk_level] and   *)
(* risk_name[risk_level].                                                  *)
(***************************************************************************)
KeyError == "KeyError"

\* A subscript that falls back on the medium tier for a missing key.
Subscript_or_medium(table, key) ==
    IF key \in DOMAIN table THEN key ELSE "medium"

\* The key whose entry table[key] reads, or the KeyError it raises.
Subscript(table, key) ==
    IF key \in DOMAIN table THEN key ELSE KeyError

(***************************************************************************)
(* Specifications.  Each applies one operation of the engine to arguments  *)
(* drawn from bounded sets; the variables an operation does not use stay   *)
(* at their idle values.                                                   *)
(***************************************************************************)
Empty == <<>>

IdleStory ==
    /\ story_cache = None /\ image_cache = Empty
    /\ events = Empty /\ chapter_index = 0
IdleProfile ==
    goal = Empty /\ current_asset = 0 /\ monthly_income = 0 /\ age = 0
IdleArgs ==
    /\ risk_level = "low" /\ target_amount = 0 /\ target_months = 0
    /\ confidence_level = 0 /\ simulations = 0 /\ mc_monthly_save = 0
IdleResults ==
    /\ risk_assessment = None /\ assessments = Empty
    /\ savings_plan = None /\ metrics = Empty
    /\ allocation = None /\ mc_result = None /\ targets = Empty
    /\ reason = None /\ raised = {}
    /\ rng = 0 /\ requests = Empty /\ recommendations = Empty
    /\ IdleStory
IdleLocals ==
    months = 0 /\ accumulated = 0 /\ trials = 0 /\ final_values = Empty

model_vars == <<ml_model, scaler>>
outcome_vars == <<reason, raised>>
request_vars == <<rng, requests, recommendations>>
story_vars == <<story_cache, image_cache, events, chapter_index>>
risk_vars == <<risk_assessment, assessments>>
profile_vars == <<goal, current_asset, monthly_income, age>>
arg_vars == <<risk_level, target_amount, target_months, confidence_level,
              simulations, mc_monthly_save>>
local_vars == <<months, accumulated, trials, final_values>>

\* Money arguments: multiples of 50 thousand yuan.
MaxAssetSteps == 10
Amounts == {50 * a : a \in 0..MaxAssetSteps}

TargetAmounts ==
    {HouseAmount, CarAmount, EducationAmount, FreedomAmount, DefaultAmount}

(***************************************************************************)
(* SpecAlloc: optimize_asset_allocation on any tier, asset, target amount  *)
(* (0 included) and horizon.                                               *)
(***************************************************************************)
MaxHorizon == 130

AllocInit ==
    /\ pc = "call"
    /\ ml_model = "none" /\ scaler = "none"
    /\ risk_level \in Tiers
    /\ current_asset \in Amounts
    /\ target_amount \in TargetAmounts \cup {0}
    /\ target_months \in 0..MaxHorizon
    /\ goal = Empty /\ monthly_income = 0 /\ age = 0
    /\ confidence_level = 0 /\ simulations = 0 /\ mc_monthly_save = 0
    /\ IdleResults /\ IdleLocals

OptimizeAllocation ==
    /\ pc = "call"
    /\ allocation' = optimize_asset_allocation(risk_level, current_asset,
                                               target_amount, target_months)
    /\ pc' = "done"
    /\ UNCHANGED <<model_vars, profile_vars, arg_vars, local_vars,
                   risk_vars, savings_plan, metrics, mc_result, targets, outcome_vars,
                   request_vars,
                   story_vars>>

AllocNext == OptimizeAllocation

SpecAlloc == AllocInit /\ [][AllocNext]_vars

(***************************************************************************)
(* SpecMetrics: the four metric methods on one tier and confidence level,  *)
(* in any order; metrics collects what has been returned.                  *)
(***************************************************************************)
ConfidenceLevels == {95, 99, 90}

MetricsInit ==
    /\ pc = "call"
    /\ ml_model = "none" /\ scaler = "none"
    /\ risk_level \in Tiers
    /\ confidence_level \in ConfidenceLevels
    /\ target_amount = 0 /\ target_months = 0 /\ simulations = 0
    /\ mc_monthly_save = 0
    /\ IdleProfile /\ IdleResults /\ IdleLocals

Returned(name, value) ==
    /\ pc = "call"
    /\ name \notin DOMAIN metrics
    /\ metrics' = metrics @@ (name :> value)
    /\ UNCHANGED <<pc, model_vars, profile_vars, arg_vars, local_vars,
                   risk_vars, savings_plan, allocation, mc_result,
                   targets, outcome_vars,
                   request_vars,
                   story_vars>>

CallSharpe == Returned("sharpe", calculate_sharpe_ratio(risk_level))
CallSortino == Returned("sortino", calculate_sortino_ratio(risk_level))
CallVar == Returned("var", calculate_var(risk_level, confidence_level))
CallCvar == Returned("cvar", calculate_cvar(risk_level, confidence_level))

MetricsNext == CallSharpe \/ CallSortino \/ CallVar \/ CallCvar

SpecMetrics == MetricsInit /\ [][MetricsNext]_vars

(***************************************************************************)
(* SpecTarget: calculate_target_amount on goal texts, in any order;        *)
(* targets collects what has been returned for each goal.                  *)
(***************************************************************************)
BuyHouse == <<"mai", "fang">>
BuyCar == <<"mai", "che">>
Education == <<"zi", "nv", "jiao", "yu">>
Freedom == <<"cai", "wu", "zi", "you">>
Retirement == <<"tui", "xiu">>
Travel == <<"lv", "xing">>
BuyAHouse == <<"b", "u", "y", " ", "a", " ", "h", "o", "u", "s", "e">>

Goals == {BuyHouse, BuyCar, Education, Freedom, Retirement, Travel, BuyAHouse}

TargetInit ==
    /\ pc = "call"
    /\ ml_model = "none" /\ scaler = "none"
    /\ IdleProfile /\ IdleArgs /\ IdleResults /\ IdleLocals

CallTargetAmount(g) ==
    /\ pc = "call"
    /\ g \notin DOMAIN targets
    /\ targets' = targets @@ (g :> calculate_target_amount(g))
    /\ UNCHANGED <<pc, model_vars, profile_vars, arg_vars, local_vars,
                   risk_vars, savings_plan, metrics, allocation,
                   mc_result, outcome_vars,
                   request_vars,
                   story_vars>>

TargetNext == \E g \in Goals : CallTargetAmount(g)

SpecTarget == TargetInit /\ [][TargetNext]_vars

(***************************************************************************)
(* SpecRisk: calculate_risk_tolerance on a profile, with the learned       *)
(* scorer installed or not.  The regressor is a library object: its        *)
(* prediction is any value in [0, 1] (a forest averages training labels,   *)
(* which lie in [0, 1]), on the grid i / PredictionGrid, or an exception.  *)
(***************************************************************************)
Incomes == {0, 5, 10, 15, 25}
Ages == {10, 25, 30, 50, 90}

PredictionGrid == 20
Predictions == {(i * FP) \div PredictionGrid : i \in 0..PredictionGrid}

ProfileInit ==
    /\ goal \in Goals
    /\ current_asset \in Amounts
    /\ monthly_income \in Incomes
    /\ age \in Ages

\* The engine as its construction leaves it: the learned scorer installed
\* (model trained, scaler fitted) or not (both None).
Constructed ==
    \/ ml_model = "none" /\ scaler = "none"
    \/ ml_model = "trained" /\ scaler = "fitted"

RiskInit ==
    /\ pc = "call"
    /\ Constructed
    /\ ProfileInit
    /\ IdleArgs /\ IdleResults /\ IdleLocals

Factors == RiskFactors(goal, current_asset, monthly_income, age)

\* What a calculate_risk_tolerance call leaves alone; what it returns is
\* recorded.
RiskUnchanged ==
    /\ assessments' = Append(assessments, risk_assessment')
    /\ UNCHANGED <<model_vars, profile_vars, arg_vars, local_vars,
                   savings_plan, metrics, allocation, mc_result, targets, outcome_vars,
                   request_vars,
                   story_vars>>

\* Lines 246-267: the learned scorer predicts.
AssessLearned(prediction) ==
    /\ pc = "call"
    /\ ml_model # "none" /\ scaler # "none"
    /\ risk_assessment' = Assessment(Factors, ClampScore(prediction), TRUE)
    /\ pc' = "assessed"
    /\ RiskUnchanged

\* The except clause of the prediction with the scorer unset by it.
AssessPredictionRaises_scorer_unset ==
    /\ pc = "call"
    /\ ml_model # "none" /\ scaler # "none"
    /\ risk_assessment' =
           Assessment(Factors, _calculate_risk_score_traditional(Factors), FALSE)
    /\ assessments' = Append(assessments, risk_assessment')
    /\ ml_model' = "none"
    /\ scaler' = "none"
    /\ pc' = "assessed"
    /\ UNCHANGED <<profile_vars, arg_vars, local_vars, savings_plan, metrics,
                   allocation, mc_result, targets, outcome_vars,
                   request_vars,
                   story_vars>>

\* Lines 268-274: the prediction raises, the deterministic scorer is used.
AssessPredictionRaises ==
    /\ pc = "call"
    /\ ml_model # "none" /\ scaler # "none"
    /\ risk_assessment' =
           Assessment(Factors, _calculate_risk_score_traditional(Factors), FALSE)
    /\ pc' = "assessed"
    /\ RiskUnchanged

\* Lines 275-280: no learned scorer.
AssessTraditional ==
    /\ pc = "call"
    /\ ~(ml_model # "none" /\ scaler # "none")
    /\ risk_assessment' =
           Assessment(Factors, _calculate_risk_score_traditional(Factors), FALSE)
    /\ pc' = "assessed"
    /\ RiskUnchanged

RiskNext ==
    \/ \E prediction \in Predictions : AssessLearned(prediction)
    \/ AssessPredictionRaises
    \/ AssessTraditional

SpecRisk == RiskInit /\ [][RiskNext]_vars

(***************************************************************************)
(* SpecSavings: calculate_optimal_savings_rate on any tier, with the       *)
(* horizon searched (target_months = None) or given.  The search loop of   *)
(* lines 389-391 takes one step per pass.                                  *)
(***************************************************************************)
MaxGivenHorizon == 60
GivenHorizons == {0, 1, 6, 12, 24, MaxGivenHorizon}

\* A given horizon beyond the cap of the search, for the arguments whose
\* amounts over that horizon stay within the integers of the model.
LongHorizons(asset, income) ==
    IF asset <= 100 /\ income <= 5 THEN {MaxSearchMonths + 1} ELSE {}

SavingsInit ==
    /\ pc = "plan"
    /\ ml_model = "none" /\ scaler = "none"
    /\ current_asset \in Amounts
    /\ monthly_income \in Incomes
    /\ target_amount \in TargetAmounts
    /\ risk_level \in Tiers
    /\ target_months \in {NoHorizon} \cup GivenHorizons
                         \cup LongHorizons(current_asset, monthly_income)
    /\ goal = Empty /\ age = 0 /\ confidence_level = 0 /\ simulations = 0
    /\ mc_monthly_save = 0
    /\ IdleResults /\ IdleLocals

\* The bond share of the tier, in tens of percent, read as its return.
AnnualReturn_from_bond_share ==
    risk_profiles[risk_level].asset_allocation.bonds \div 10

\* annual_return of the tier, in percent.
AnnualReturn == risk_profiles[risk_level].expected_return

PlanUnchanged ==
    UNCHANGED <<model_vars, profile_vars, arg_vars, risk_vars, metrics,
                allocation, mc_result, targets, outcome_vars,
                   request_vars,
                   story_vars>>

\* Lines 373-379: horizon unknown and the goal already met.
PlanGoalMet ==
    /\ pc = "plan"
    /\ target_months = NoHorizon
    /\ target_amount - current_asset <= 0
    /\ savings_plan' = SavingsPlan(current_asset * Fen, monthly_income * Fen,
                                   AnnualReturn, 0, 0)
    /\ pc' = "done"
    /\ UNCHANGED local_vars
    /\ PlanUnchanged

\* Lines 380-387: horizon unknown, the search starts.
SearchStart ==
    /\ pc = "plan"
    /\ target_months = NoHorizon
    /\ target_amount - current_asset > 0
    /\ months' = 0
    /\ accumulated' = current_asset * Fen
    /\ pc' = "search"
    /\ UNCHANGED <<trials, final_values, savings_plan>>
    /\ PlanUnchanged

\* monthly_save = monthly_income * 0.3.
SearchSave == (monthly_income * Fen * 3) \div 10

\* Lines 389-391: one pass of the loop.
SearchStep ==
    /\ pc = "search"
    /\ accumulated < target_amount * Fen /\ months < MaxSearchMonths
    /\ accumulated' = Compound(accumulated, AnnualReturn, SearchSave)
    /\ months' = months + 1
    /\ UNCHANGED <<pc, trials, final_values, savings_plan>>
    /\ PlanUnchanged

\* The plan returned with one month more than the loop counted.
SearchExit_one_month_more ==
    /\ pc = "search"
    /\ ~(accumulated < target_amount * Fen /\ months < MaxSearchMonths)
    /\ savings_plan' =
           SavingsPlan(current_asset * Fen, monthly_income * Fen, AnnualReturn,
                       months + 1, SearchSave)
    /\ pc' = "done"
    /\ UNCHANGED local_vars
    /\ PlanUnchanged

\* Lines 393, 407-434: the loop ends and the plan is returned.
SearchExit ==
    /\ pc = "search"
    /\ ~(accumulated < target_amount * Fen /\ months < MaxSearchMonths)
    /\ savings_plan' =
           SavingsPlan(current_asset * Fen, monthly_income * Fen, AnnualReturn,
                       IF months < MaxSearchMonths THEN months
                       ELSE MaxSearchMonths,
                       SearchSave)
    /\ pc' = "done"
    /\ UNCHANGED local_vars
    /\ PlanUnchanged

\* Lines 394-434: horizon given.
PlanGiven ==
    /\ pc = "plan"
    /\ target_months # NoHorizon
    /\ savings_plan' =
           SavingsPlan(current_asset * Fen, monthly_income * Fen, AnnualReturn,
                       target_months,
                       RequiredSave(current_asset * Fen, target_amount * Fen,
                                    AnnualReturn, target_months))
    /\ pc' = "done"
    /\ UNCHANGED local_vars
    /\ PlanUnchanged

SavingsNext ==
    PlanGoalMet \/ SearchStart \/ SearchStep \/ SearchExit \/ PlanGiven

SpecSavings == SavingsInit /\ [][SavingsNext]_vars

(***************************************************************************)
(* SpecMC: monte_carlo_simulation.  random.gauss can return any real; each *)
(* random_return is drawn from Returns (percent per month, a loss of more  *)
(* than the whole asset included).  One pass of the loop over              *)
(* range(simulations) is one step.                                         *)
(***************************************************************************)
MinSimulations == 100
SimulationCounts == {MinSimulations, MinSimulations + 1}
SimulatedMonths == {0, 1}
Returns == {-150, 0, 50}
Savings == {0, 5 * Fen}

MCInit ==
    /\ pc = "simulate"
    /\ ml_model = "none" /\ scaler = "none"
    /\ current_asset \in {0, 100}
    /\ mc_monthly_save \in Savings
    /\ months \in SimulatedMonths
    /\ simulations \in SimulationCounts
    /\ goal = Empty /\ monthly_income = 0 /\ age = 0
    /\ risk_level = "low" /\ target_amount = 0 /\ target_months = 0
    /\ confidence_level = 0
    /\ accumulated = 0 /\ trials = 0 /\ final_values = Empty
    /\ IdleResults

MCUnchanged ==
    UNCHANGED <<model_vars, profile_vars, arg_vars, months, accumulated,
                risk_vars, savings_plan, metrics, allocation, targets, outcome_vars,
                   request_vars,
                   story_vars>>

\* Lines 552-559: one trial.
Trial ==
    /\ pc = "simulate"
    /\ trials < simulations
    /\ \E returns \in [1..months -> Returns] :
           final_values' =
               Append1(final_values,
                       RunMonths(current_asset * Fen, mc_monthly_save,
                                 returns, 1))
    /\ trials' = trials + 1
    /\ UNCHANGED <<pc, mc_result>>
    /\ MCUnchanged

\* Lines 561-575: the outcomes are sorted and the statistics returned.
Summarise ==
    /\ pc = "simulate"
    /\ trials = simulations
    /\ simulations > 0
    /\ mc_result' = Statistics(final_values, simulations)
    /\ pc' = "done"
    /\ UNCHANGED <<trials, final_values>>
    /\ MCUnchanged

MCNext == Trial \/ Summarise

SpecMC == MCInit /\ [][MCNext]_vars

(***************************************************************************)
(* SpecProfile: a profile is assessed (calculate_risk_tolerance) and then  *)
(* planned for (calculate_optimal_savings_rate on the target amount of its *)
(* goal), for any tier, as the recommend-path endpoint does for each tier  *)
(* with the horizon searched, or with a horizon given.                     *)
(***************************************************************************)
PlanGoals == {BuyCar, Travel}
PlanAssets == {0, 300, 500}
PlanIncomes == {10, 25}
DefaultAge == 30

PlanInit ==
    /\ pc = "call"
    /\ Constructed
    /\ goal \in PlanGoals
    /\ current_asset \in PlanAssets
    /\ monthly_income \in PlanIncomes
    /\ age = DefaultAge
    /\ IdleArgs /\ IdleResults /\ IdleLocals

\* The call of calculate_optimal_savings_rate: the arguments are bound.
CallPlan ==
    /\ pc = "assessed"
    /\ \E tier \in Tiers, horizon \in {NoHorizon} \cup GivenHorizons :
           /\ risk_level' = tier
           /\ target_months' = horizon
    /\ target_amount' = calculate_target_amount(goal)
    /\ pc' = "plan"
    /\ UNCHANGED <<model_vars, profile_vars, confidence_level, simulations,
                   mc_monthly_save, local_vars, risk_vars, savings_plan,
                   metrics, allocation, mc_result, targets, outcome_vars,
                   request_vars,
                   story_vars>>

ProfileNext == RiskNext \/ CallPlan \/ SavingsNext

SpecProfile == PlanInit /\ [][ProfileNext]_vars

(***************************************************************************)
(* SpecLifetime: the life of one engine.  __init__ installs the learned    *)
(* scorer step by step when the library was imported, any step of          *)
(* _initialize_ml_model may raise; then calculate_risk_tolerance is called *)
(* MaxCalls times on profiles of successive requests.                      *)
(***************************************************************************)
MaxCalls == 2
TrainingSteps == {"data", "model", "scaler", "fit"}
LifetimePredictions == {0, FP \div 2, FP}

LifetimeInit ==
    /\ pc = "init"
    /\ ml_model = "none" /\ scaler = "none"
    /\ IdleProfile /\ IdleArgs /\ IdleResults /\ IdleLocals

ConstructionUnchanged ==
    UNCHANGED <<profile_vars, arg_vars, local_vars, risk_vars, savings_plan,
                metrics, allocation, mc_result, targets, outcome_vars,
                   request_vars,
                   story_vars>>

\* Lines 71-73: ML_AVAILABLE is False, the scorer stays unset.
NoLibrary ==
    /\ pc = "init"
    /\ pc' = "ready"
    /\ UNCHANGED model_vars
    /\ ConstructionUnchanged

\* Lines 73-74: ML_AVAILABLE is True, _initialize_ml_model is entered.
BeginTraining ==
    /\ pc = "init"
    /\ pc' = "data"
    /\ UNCHANGED model_vars
    /\ ConstructionUnchanged

\* Line 86: the training data is generated.
GenerateData ==
    /\ pc = "data"
    /\ pc' = "model"
    /\ UNCHANGED model_vars
    /\ ConstructionUnchanged

\* Lines 90-96: self.ml_model = RandomForestRegressor(...).
MakeModel ==
    /\ pc = "model"
    /\ ml_model' = "untrained"
    /\ pc' = "scaler"
    /\ UNCHANGED scaler
    /\ ConstructionUnchanged

\* Lines 99-100: self.scaler = StandardScaler(), fitted to the data.
FitScaler ==
    /\ pc = "scaler"
    /\ scaler' = "fitted"
    /\ pc' = "fit"
    /\ UNCHANGED ml_model
    /\ ConstructionUnchanged

\* Line 103: self.ml_model.fit(...).
FitModel ==
    /\ pc = "fit"
    /\ ml_model' = "trained"
    /\ pc' = "ready"
    /\ UNCHANGED scaler
    /\ ConstructionUnchanged

\* The except clause with the scorer left as the failed step found it.
TrainingFails_scorer_kept ==
    /\ pc \in TrainingSteps
    /\ pc' = "ready"
    /\ UNCHANGED model_vars
    /\ ConstructionUnchanged

\* Lines 105-108: the step about to run raises; both are set to None.
TrainingFails ==
    /\ pc \in TrainingSteps
    /\ ml_model' = "none"
    /\ scaler' = "none"
    /\ pc' = "ready"
    /\ ConstructionUnchanged

\* A request arrives: calculate_risk_tolerance is called on its profile.
Request ==
    /\ pc \in {"ready", "assessed"}
    /\ Len(assessments) < MaxCalls
    /\ goal' \in PlanGoals
    /\ current_asset' \in PlanAssets
    /\ monthly_income' \in PlanIncomes
    /\ age' = DefaultAge
    /\ pc' = "call"
    /\ UNCHANGED <<model_vars, arg_vars, local_vars, risk_vars, savings_plan,
                   metrics, allocation, mc_result, targets, outcome_vars,
                   request_vars,
                   story_vars>>

LifetimeNext ==
    \/ NoLibrary \/ BeginTraining \/ GenerateData \/ MakeModel \/ FitScaler
    \/ FitModel \/ TrainingFails
    \/ Request
    \/ \E prediction \in LifetimePredictions : AssessLearned(prediction)
    \/ AssessPredictionRaises
    \/ AssessTraditional

SpecLifetime == LifetimeInit /\ [][LifetimeNext]_vars

(***************************************************************************)
(* SpecTier: the seven tier-keyed operations, each called once in any      *)
(* order with the same key, a tier or a key the tables do not hold.        *)
(***************************************************************************)
UnknownTiers == {"aggressive", ""}
GivenMonths == 12

TierInit ==
    /\ pc = "call"
    /\ Constructed
    /\ ml_model = "none"
    /\ risk_level \in Tiers \cup UnknownTiers
    /\ goal = BuyCar
    /\ current_asset \in PlanAssets
    /\ monthly_income \in PlanIncomes
    /\ age = DefaultAge
    /\ target_amount = calculate_target_amount(goal)
    /\ target_months = GivenMonths
    /\ confidence_level = 95
    /\ simulations = 0 /\ mc_monthly_save = 0
    /\ IdleResults /\ IdleLocals

TierUnchanged ==
    UNCHANGED <<pc, model_vars, profile_vars, arg_vars, local_vars, risk_vars,
                mc_result, targets, request_vars,
                   story_vars>>

\* The subscript raises: the operation returns nothing.
Raise(name) ==
    /\ raised' = raised \cup {name}
    /\ UNCHANGED <<metrics, savings_plan, allocation, reason>>

\* calculate_sharpe_ratio, line 453.
TierSharpe ==
    /\ pc = "call"
    /\ "sharpe" \notin DOMAIN metrics \cup raised
    /\ LET key == Subscript(risk_profiles, risk_level)
       IN  IF key = KeyError
           THEN Raise("sharpe")
           ELSE /\ metrics' = metrics @@ ("sharpe" :> calculate_sharpe_ratio(key))
                /\ UNCHANGED <<savings_plan, allocation, reason, raised>>
    /\ TierUnchanged

\* calculate_sortino_ratio, line 494.
TierSortino ==
    /\ pc = "call"
    /\ "sortino" \notin DOMAIN metrics \cup raised
    /\ LET key == Subscript(risk_profiles, risk_level)
       IN  IF key = KeyError
           THEN Raise("sortino")
           ELSE /\ metrics' = metrics @@ ("sortino" :> calculate_sortino_ratio(key))
                /\ UNCHANGED <<savings_plan, allocation, reason, raised>>
    /\ TierUnchanged

\* calculate_var, line 473.
TierVar ==
    /\ pc = "call"
    /\ "var" \notin DOMAIN metrics \cup raised
    /\ LET key == Subscript(risk_profiles, risk_level)
       IN  IF key = KeyError
           THEN Raise("var")
           ELSE /\ metrics' = metrics @@ ("var" :> calculate_var(key, confidence_level))
                /\ UNCHANGED <<savings_plan, allocation, reason, raised>>
    /\ TierUnchanged

\* calculate_cvar, which calls calculate_var (lines 513, 473).
TierCvar ==
    /\ pc = "call"
    /\ "cvar" \notin DOMAIN metrics \cup raised
    /\ LET key == Subscript(risk_profiles, risk_level)
       IN  IF key = KeyError
           THEN Raise("cvar")
           ELSE /\ metrics' = metrics @@ ("cvar" :> calculate_cvar(key, confidence_level))
                /\ UNCHANGED <<savings_plan, allocation, reason, raised>>
    /\ TierUnchanged

\* calculate_optimal_savings_rate, line 368, with a horizon given.
TierSavings ==
    /\ pc = "call"
    /\ savings_plan = None /\ "savings" \notin raised
    /\ LET key == Subscript(risk_profiles, risk_level)
       IN  IF key = KeyError
           THEN Raise("savings")
           ELSE /\ savings_plan' =
                       SavingsPlan(current_asset * Fen, monthly_income * Fen,
                                   risk_profiles[key].expected_return,
                                   target_months,
                                   RequiredSave(current_asset * Fen,
                                                target_amount * Fen,
                                                risk_profiles[key].expected_return,
                                                target_months))
                /\ UNCHANGED <<metrics, allocation, reason, raised>>
    /\ TierUnchanged

\* optimize_asset_allocation, line 595.
TierAllocation ==
    /\ pc = "call"
    /\ allocation = None /\ "allocation" \notin raised
    /\ LET key == Subscript(risk_profiles, risk_level)
       IN  IF key = KeyError
           THEN Raise("allocation")
           ELSE /\ allocation' =
                       optimize_asset_allocation(key, current_asset,
                                                 target_amount, target_months)
                /\ UNCHANGED <<metrics, savings_plan, reason, raised>>
    /\ TierUnchanged

\* _generate_recommendation_reason, line 750, on the assessment of the
\* profile.
TierReason ==
    /\ pc = "call"
    /\ reason = None /\ "reason" \notin raised
    /\ LET key == Subscript(risk_name, risk_level)
       IN  IF key = KeyError
           THEN Raise("reason")
           ELSE /\ reason' =
                       _generate_recommendation_reason(
                           Assessment(Factors,
                                      _calculate_risk_score_traditional(Factors),
                                      FALSE),
                           key)
                /\ UNCHANGED <<metrics, savings_plan, allocation, raised>>
    /\ TierUnchanged

TierNext ==
    \/ TierSharpe \/ TierSortino \/ TierVar \/ TierCvar
    \/ TierSavings \/ TierAllocation \/ TierReason

SpecTier == TierInit /\ [][TierNext]_vars

(***************************************************************************)
(* SpecConcurrent: two requests run monte_carlo_simulation on the one      *)
(* engine of the process, with the same arguments, their trials            *)
(* interleaved in any order (one after the other included).  random.gauss  *)
(* draws from the generator of the random module, which every call in the  *)
(* process shares: a draw is a function of the generator's state and       *)
(* advances it.                                                            *)
(***************************************************************************)
Requests == {1, 2}
MaxConcurrentTrials == 3
ReturnStream == <<-150, 0, 50, -50, 0>>

\* random.gauss in generator state n.
Gauss(n) == ReturnStream[(n % Len(ReturnStream)) + 1]

\* Lines 553-559: the outcome of a trial of n months whose first draw is made
\* in generator state start.
TrialAt(asset, save, n, start) ==
    RunMonths(asset, save, [m \in 1..n |-> Gauss(start + m - 1)], 1)

ConcurrentInit ==
    /\ pc = "serve"
    /\ ml_model = "none" /\ scaler = "none"
    /\ current_asset \in {0, 100}
    /\ mc_monthly_save \in Savings
    /\ months = 1
    /\ simulations \in 1..MaxConcurrentTrials
    /\ goal = Empty /\ monthly_income = 0 /\ age = 0
    /\ risk_level = "low" /\ target_amount = 0 /\ target_months = 0
    /\ confidence_level = 0
    /\ accumulated = 0 /\ trials = 0 /\ final_values = Empty
    /\ risk_assessment = None /\ assessments = Empty
    /\ savings_plan = None /\ metrics = Empty
    /\ allocation = None /\ mc_result = None /\ targets = Empty
    /\ reason = None /\ raised = {}
    /\ rng = 0
    /\ recommendations = Empty
    /\ IdleStory
    /\ requests = [r \in Requests |->
                       [pc |-> "simulate", trials |-> 0,
                        final_values |-> Empty, mc_result |-> None]]

ConcurrentUnchanged ==
    UNCHANGED <<pc, model_vars, profile_vars, arg_vars, local_vars, risk_vars,
                savings_plan, metrics, allocation, mc_result, targets,
                outcome_vars, recommendations, story_vars>>

\* The outcome of a trial whose first draw is made in generator state n.
TrialFrom(n) == TrialAt(current_asset * Fen, mc_monthly_save, months, n)

\* Lines 552-559, one trial of request r: its draws advance the generator.
RequestTrial(r) ==
    /\ requests[r].pc = "simulate"
    /\ requests[r].trials < simulations
    /\ requests' = [requests EXCEPT
                        ![r].final_values = Append1(@, TrialFrom(rng)),
                        ![r].trials = @ + 1]
    /\ rng' = rng + months
    /\ ConcurrentUnchanged

\* Lines 561-575 of request r.
RequestSummarise(r) ==
    /\ requests[r].pc = "simulate"
    /\ requests[r].trials = simulations
    /\ requests' = [requests EXCEPT
                        ![r].mc_result =
                            Statistics(requests[r].final_values, simulations),
                        ![r].pc = "done"]
    /\ UNCHANGED rng
    /\ ConcurrentUnchanged

ConcurrentNext ==
    \E r \in Requests : RequestTrial(r) \/ RequestSummarise(r)

SpecConcurrent == ConcurrentInit /\ [][ConcurrentNext]_vars

(***************************************************************************)
(* SpecEndpoint: the recommend-path endpoint of main.py, called up to      *)
(* MaxCalls times with one request body in one process whose engine has    *)
(* no learned scorer.  The body may carry an age; FinancialData declares   *)
(* goal, currentAsset and monthlyIncome only.  A call assesses the profile *)
(* once, then for each tier in turn plans (the horizon is searched),       *)
(* simulates and records a recommendation, and returns the three.  The     *)
(* simulation makes EndpointSimulations trials where the code makes        *)
(* 10000, its draws taken from the generator of the process.               *)
(***************************************************************************)
EndpointGoals == {BuyCar, Travel}
EndpointAssets == {0, 250, 300}
EndpointIncomes == {0, 10, 25}
NoAge == -1
SuppliedAges == {NoAge, 25, 30, 50, 70}
EndpointSimulations == 3
TierOrder == <<"low", "medium", "high">>

EndpointInit ==
    /\ pc = "request"
    /\ ml_model = "none" /\ scaler = "none"
    /\ goal \in EndpointGoals
    /\ current_asset \in EndpointAssets
    /\ monthly_income \in EndpointIncomes
    /\ age \in SuppliedAges
    /\ IdleArgs /\ IdleResults /\ IdleLocals

\* Lines 429-439: the target amount and the one risk assessment, with
\* age=30.
EndpointAssess ==
    /\ pc = "request"
    /\ Len(requests) < MaxCalls
    /\ target_amount' = calculate_target_amount(goal)
    /\ LET f == RiskFactors(goal, current_asset, monthly_income, DefaultAge)
       IN  risk_assessment' =
               Assessment(f, _calculate_risk_score_traditional(f), FALSE)
    /\ assessments' = Append(assessments, risk_assessment')
    /\ recommendations' = Empty
    /\ pc' = "loop"
    /\ UNCHANGED <<model_vars, profile_vars, risk_level, target_months,
                   confidence_level, simulations, mc_monthly_save, local_vars,
                   savings_plan, metrics, allocation, mc_result, targets,
                   outcome_vars, rng, requests, story_vars>>

\* Lines 443-450: the next tier of the loop; calculate_optimal_savings_rate
\* is called without a horizon.
EndpointPlan ==
    /\ pc = "loop"
    /\ Cardinality(DOMAIN recommendations) < Len(TierOrder)
    /\ risk_level' = TierOrder[Cardinality(DOMAIN recommendations) + 1]
    /\ target_months' = NoHorizon
    /\ pc' = "plan"
    /\ UNCHANGED <<model_vars, profile_vars, target_amount, confidence_level,
                   simulations, mc_monthly_save, local_vars, risk_vars,
                   savings_plan, metrics, allocation, mc_result, targets,
                   outcome_vars, request_vars,
                   story_vars>>

\* Lines 552-559 for every trial: final_values after sims trials of n months,
\* the first draw made in generator state start.
RECURSIVE Simulated(_, _, _, _, _)
Simulated(asset, save, n, sims, start) ==
    IF sims = 0 THEN Empty
    ELSE Append1(Simulated(asset, save, n, sims - 1, start),
                 TrialAt(asset, save, n, start + (sims - 1) * n))

\* A recommendation whose expected final amount is the mean of the
\* simulation.
Recommendation_simulated_amount(tier, assessment, plan, target, mc, alloc) ==
    [recommendedRisk |-> tier,
     reason |-> _generate_recommendation_reason(assessment, tier),
     monthlySave |-> plan.monthly_save,
     expectedReturn |-> risk_profiles[tier].expected_return * 10,
     targetMonths |-> plan.target_months,
     targetAmount |-> target * Fen,
     expectedFinalAmount |-> mc.expected_value,
     sharpeRatio |-> calculate_sharpe_ratio(tier),
     sortinoRatio |-> calculate_sortino_ratio(tier),
     var95 |-> calculate_var(tier, 95),
     cvar95 |-> calculate_cvar(tier, 95),
     volatility |-> risk_profiles[tier].volatility * 10,
     maxDrawdown |-> risk_profiles[tier].max_drawdown * 10,
     assetAllocation |-> alloc,
     monteCarloSimulation |->
         [expectedValue |-> mc.expected_value,
          median |-> mc.median,
          confidenceInterval5 |-> mc.p5,
          confidenceInterval95 |-> mc.p95,
          confidenceInterval |-> mc.confidence_interval],
     riskScore |-> assessment.risk_score,
     riskFactors |-> assessment.factors]

\* Lines 487-517: recommendations[risk_level].  Money is in fen, ratios and
\* factors in hundredths, the percentages rounded to one decimal in tenths:
\* the engine returns them rounded to these places already.
Recommendation(tier, assessment, plan, target, mc, alloc) ==
    [recommendedRisk |-> tier,
     reason |-> _generate_recommendation_reason(assessment, tier),
     monthlySave |-> plan.monthly_save,
     expectedReturn |-> risk_profiles[tier].expected_return * 10,
     targetMonths |-> plan.target_months,
     targetAmount |-> target * Fen,
     expectedFinalAmount |-> plan.expected_final_amount,
     sharpeRatio |-> calculate_sharpe_ratio(tier),
     sortinoRatio |-> calculate_sortino_ratio(tier),
     var95 |-> calculate_var(tier, 95),
     cvar95 |-> calculate_cvar(tier, 95),
     volatility |-> risk_profiles[tier].volatility * 10,
     maxDrawdown |-> risk_profiles[tier].max_drawdown * 10,
     assetAllocation |-> alloc,
     monteCarloSimulation |->
         [expectedValue |-> mc.expected_value,
          median |-> mc.median,
          confidenceInterval5 |-> mc.p5,
          confidenceInterval95 |-> mc.p95,
          confidenceInterval |-> mc.confidence_interval],
     riskScore |-> assessment.risk_score,
     riskFactors |-> assessment.factors]

\* Lines 452-517: the plan is back; the metrics, the simulation, the
\* allocation and the reason of the tier, and its recommendation.
EndpointRecommend ==
    /\ pc = "done"
    /\ LET n == savings_plan.target_months
           mc == Statistics(Simulated(current_asset * Fen,
                                      savings_plan.monthly_save, n,
                                      EndpointSimulations, rng),
                            EndpointSimulations)
           alloc == optimize_asset_allocation(risk_level, current_asset,
                                              target_amount, n)
           made == Recommendation(risk_level, risk_assessment, savings_plan,
                                  target_amount, mc, alloc)
       IN  /\ mc_result' = mc
           /\ allocation' = alloc
           /\ reason' = made.reason
           /\ rng' = rng + EndpointSimulations * n
           /\ recommendations' =
                  [t \in DOMAIN recommendations \cup {risk_level} |->
                       IF t = risk_level THEN made ELSE recommendations[t]]
    /\ pc' = "loop"
    /\ UNCHANGED <<model_vars, profile_vars, arg_vars, local_vars, risk_vars,
                   savings_plan, metrics, targets, raised, requests, story_vars>>

\* The primary pick read from the loop variable.
EndpointReturn_primary_is_last_tier ==
    /\ pc = "loop"
    /\ Cardinality(DOMAIN recommendations) = Len(TierOrder)
    /\ requests' = Append(requests,
                          [success |-> TRUE,
                           recommendedRisk |-> risk_level,
                           recommendations |-> recommendations])
    /\ pc' = "request"
    /\ UNCHANGED <<model_vars, profile_vars, arg_vars, local_vars, risk_vars,
                   savings_plan, metrics, allocation, mc_result, targets,
                   outcome_vars, rng, recommendations, story_vars>>

\* Lines 519-526: the response.
EndpointReturn ==
    /\ pc = "loop"
    /\ Cardinality(DOMAIN recommendations) = Len(TierOrder)
    /\ requests' = Append(requests,
                          [success |-> TRUE,
                           recommendedRisk |-> risk_assessment.risk_level,
                           recommendations |-> recommendations])
    /\ pc' = "request"
    /\ UNCHANGED <<model_vars, profile_vars, arg_vars, local_vars, risk_vars,
                   savings_plan, metrics, allocation, mc_result, targets,
                   outcome_vars, rng, recommendations, story_vars>>

EndpointNext ==
    \/ EndpointAssess
    \/ EndpointPlan
    \/ PlanGoalMet
    \/ SearchStart
    \/ SearchStep
    \/ SearchExit
    \/ EndpointRecommend
    \/ EndpointReturn

SpecEndpoint == EndpointInit /\ [][EndpointNext]_vars

(***************************************************************************)
(* SpecGuards: the operations of the engine on a valid profile (asset and  *)
(* income zero included) and a tier, each called once, in any order.  A    *)
(* division whose divisor is zero raises ZeroDivisionError: for each       *)
(* operation the divisors of the divisions it executes are listed, each    *)
(* under the condition of the path that reaches its division.              *)
(***************************************************************************)
GuardAssets == {0, 300, 500}
GuardIncomes == {0, 5, 25}
GuardHorizons == {0, 1, 12}

GuardsInit ==
    /\ pc = "call"
    /\ ml_model = "none" /\ scaler = "none"
    /\ goal \in Goals
    /\ current_asset \in GuardAssets
    /\ monthly_income \in GuardIncomes
    /\ age = DefaultAge
    /\ risk_level \in Tiers
    /\ target_amount = calculate_target_amount(goal)
    /\ target_months \in GuardHorizons
    /\ confidence_level = 0 /\ simulations = 0 /\ mc_monthly_save = 0
    /\ IdleResults /\ IdleLocals

\* The capacity guard of line 222 left out: gap / monthly_save_capacity
\* whenever there is a gap.
RiskDivisors_capacity_unguarded(g, asset, income) ==
    LET target == calculate_target_amount(g)
    IN  (IF target > 0 THEN {target} ELSE {})
        \cup (IF target - asset > 0 THEN {3 * income} ELSE {})
        \cup {50, 5000}

\* calculate_risk_tolerance: lines 210, 222, 229-231 (months_to_target, a
\* fraction, is zero when its numerator is), 234 and 238.
RiskDivisors(g, asset, income) ==
    LET target == calculate_target_amount(g)
        gap == target - asset
        m == MonthsToTarget(gap, income)
    IN  (IF target > 0 THEN {target} ELSE {})
        \cup (IF gap > 0 /\ 3 * income > 0 THEN {3 * income} ELSE {})
        \cup (IF gap > 0 /\ m[1] >= 12 * m[2] THEN {m[1]} ELSE {})
        \cup {50, 5000}

\* calculate_optimal_savings_rate with the horizon n given: lines 370,
\* 403-404, 412 and 417; k is the annual return in percent.
SavingsDivisors(income, k, n) ==
    {12}
    \cup (IF n # 0 /\ k > 0 THEN {k} ELSE {})
    \cup (IF n # 0
          THEN IF AnnuityFactor(k, n) > 0 THEN {AnnuityFactor(k, n)} ELSE {n}
          ELSE {})
    \cup (IF n = 0 \/ income = 0 THEN {} ELSE {income})
    \cup (IF k > 0 THEN {k} ELSE {})

\* calculate_sharpe_ratio, line 456, and calculate_sortino_ratio, line 499
\* (downside_volatility in tenths).
SharpeDivisors(volatility) == IF volatility > 0 THEN {volatility} ELSE {}
SortinoDivisors(volatility) ==
    IF volatility * 6 > 0 THEN {volatility * 6} ELSE {}

\* monte_carlo_simulation: lines 547-548 and 567 (len(final_values)).
SimulationDivisors(sims) == {12, sims}

\* optimize_asset_allocation: lines 598, 601 and 612-614.
AllocationDivisors(tier, asset, target, time_horizon) ==
    LET adj == AdjustedWeights(tier, asset, target, time_horizon)
    IN  {120, adj.stocks + adj.bonds + adj.cash}
        \cup (IF target > 0 THEN {target} ELSE {})

GuardsUnchanged ==
    UNCHANGED <<pc, model_vars, profile_vars, arg_vars, local_vars, targets,
                reason, requests, recommendations, story_vars>>

GuardRisk ==
    /\ pc = "call"
    /\ risk_assessment = None /\ "risk" \notin raised
    /\ IF 0 \in RiskDivisors(goal, current_asset, monthly_income)
       THEN /\ raised' = raised \cup {"risk"}
            /\ UNCHANGED risk_vars
       ELSE /\ risk_assessment' =
                   Assessment(Factors,
                              _calculate_risk_score_traditional(Factors), FALSE)
            /\ assessments' = Append(assessments, risk_assessment')
            /\ UNCHANGED raised
    /\ UNCHANGED <<savings_plan, metrics, allocation, mc_result, rng>>
    /\ GuardsUnchanged

GuardSavings ==
    /\ pc = "call"
    /\ savings_plan = None /\ "savings" \notin raised
    /\ IF 0 \in SavingsDivisors(monthly_income, AnnualReturn, target_months)
       THEN /\ raised' = raised \cup {"savings"}
            /\ UNCHANGED savings_plan
       ELSE /\ savings_plan' =
                   SavingsPlan(current_asset * Fen, monthly_income * Fen,
                               AnnualReturn, target_months,
                               RequiredSave(current_asset * Fen,
                                            target_amount * Fen, AnnualReturn,
                                            target_months))
            /\ UNCHANGED raised
    /\ UNCHANGED <<risk_vars, metrics, allocation, mc_result, rng>>
    /\ GuardsUnchanged

GuardSharpe ==
    /\ pc = "call"
    /\ "sharpe" \notin DOMAIN metrics \cup raised
    /\ IF 0 \in SharpeDivisors(risk_profiles[risk_level].volatility)
       THEN /\ raised' = raised \cup {"sharpe"}
            /\ UNCHANGED metrics
       ELSE /\ metrics' =
                   metrics @@ ("sharpe" :> calculate_sharpe_ratio(risk_level))
            /\ UNCHANGED raised
    /\ UNCHANGED <<risk_vars, savings_plan, allocation, mc_result, rng>>
    /\ GuardsUnchanged

GuardSortino ==
    /\ pc = "call"
    /\ "sortino" \notin DOMAIN metrics \cup raised
    /\ IF 0 \in SortinoDivisors(risk_profiles[risk_level].volatility)
       THEN /\ raised' = raised \cup {"sortino"}
            /\ UNCHANGED metrics
       ELSE /\ metrics' =
                   metrics @@ ("sortino" :> calculate_sortino_ratio(risk_level))
            /\ UNCHANGED raised
    /\ UNCHANGED <<risk_vars, savings_plan, allocation, mc_result, rng>>
    /\ GuardsUnchanged

\* monte_carlo_simulation on the plan, as recommend_path calls it.
GuardSimulate ==
    /\ pc = "call"
    /\ savings_plan # None
    /\ mc_result = None /\ "simulate" \notin raised
    /\ IF 0 \in SimulationDivisors(EndpointSimulations)
       THEN /\ raised' = raised \cup {"simulate"}
            /\ UNCHANGED <<mc_result, rng>>
       ELSE /\ mc_result' =
                   Statistics(Simulated(current_asset * Fen,
                                        savings_plan.monthly_save,
                                        savings_plan.target_months,
                                        EndpointSimulations, rng),
                              EndpointSimulations)
            /\ rng' = rng + EndpointSimulations * savings_plan.target_months
            /\ UNCHANGED raised
    /\ UNCHANGED <<risk_vars, savings_plan, metrics, allocation>>
    /\ GuardsUnchanged

GuardAllocation ==
    /\ pc = "call"
    /\ allocation = None /\ "allocation" \notin raised
    /\ IF 0 \in AllocationDivisors(risk_level, current_asset, target_amount,
                                   target_months)
       THEN /\ raised' = raised \cup {"allocation"}
            /\ UNCHANGED allocation
       ELSE /\ allocation' =
                   optimize_asset_allocation(risk_level, current_asset,
                                             target_amount, target_months)
            /\ UNCHANGED raised
    /\ UNCHANGED <<risk_vars, savings_plan, metrics, mc_result, rng>>
    /\ GuardsUnchanged

GuardsNext ==
    \/ GuardRisk
    \/ GuardSavings
    \/ GuardSharpe
    \/ GuardSortino
    \/ GuardSimulate
    \/ GuardAllocation

SpecGuards == GuardsInit /\ [][GuardsNext]_vars

(***************************************************************************)
(* SpecReason: a profile is assessed and the rationale of the assessed     *)
(* tier is generated from the assessment, as recommend_path of the engine  *)
(* does (lines 656-662 and 705-710).                                       *)
(***************************************************************************)
\* Lines 705-710: _generate_recommendation_reason(risk_assessment, ...,
\* recommended_risk, ...).
CallReason ==
    /\ pc = "assessed"
    /\ reason' = _generate_recommendation_reason(risk_assessment,
                                                 risk_assessment.risk_level)
    /\ pc' = "reasoned"
    /\ UNCHANGED <<model_vars, profile_vars, arg_vars, local_vars, risk_vars,
                   savings_plan, metrics, allocation, mc_result, targets,
                   raised, request_vars,
                   story_vars>>

ReasonNext == RiskNext \/ CallReason

SpecReason == RiskInit /\ [][ReasonNext]_vars

(***************************************************************************)
(* Properties.                                                             *)
(***************************************************************************)

\* C1 (as claimed): the three weights returned by optimize_asset_allocation
\* sum to 1.0 within 1e-6.  The weights are multiples of 0.001, so the sum is
\* within 1e-6 of 1.0 exactly when it is 1000 thousandths.
C1_WeightsSumToOne ==
    allocation # None =>
        allocation.stocks + allocation.bonds + allocation.cash = 1000

\* C2: the risk_score returned by calculate_risk_tolerance lies in [0, 1]
\* (0..100 hundredths), for every profile, ages below 25 included, with the
\* learned scorer or the deterministic one.
C2_RiskScoreInUnitInterval ==
    risk_assessment # None =>
        risk_assessment.risk_score >= 0 /\ risk_assessment.risk_score <= 100

\* An age below 25 whose deterministic score exceeds 1.0 before the clamp.
C2_Witness ==
    /\ risk_assessment # None
    /\ ~risk_assessment.ml_enhanced
    /\ age < 25
    /\ TraditionalScore(Factors) > FP
    /\ risk_assessment.risk_score = 100

\* C3: in every plan returned by calculate_optimal_savings_rate, horizon
\* given or searched, savings_rate is within [0.2, 0.6] when target_months > 0
\* and monthly_income > 0, and 0 otherwise.
C3_SavingsRateClamped ==
    savings_plan # None =>
        IF savings_plan.target_months > 0 /\ monthly_income > 0
        THEN savings_plan.savings_rate >= 20 /\ savings_plan.savings_rate <= 60
        ELSE savings_plan.savings_rate = 0

\* A plan over a given horizon that needs no saving at all, its rate raised
\* to 0.2 by the clamp.
C3_Witness ==
    /\ savings_plan # None
    /\ target_months # NoHorizon
    /\ savings_plan.target_months > 0
    /\ monthly_income > 0
    /\ current_asset >= target_amount
    /\ savings_plan.savings_rate = 20

\* C4: in every result of monte_carlo_simulation with at least 100 trials,
\* p5 <= median <= p95.
C4_PercentilesOrdered ==
    (mc_result # None /\ simulations >= 100) =>
        mc_result.p5 <= mc_result.median /\ mc_result.median <= mc_result.p95

\* A run of at least 100 trials whose three percentiles differ.
C4_Witness ==
    /\ mc_result # None
    /\ simulations >= 100
    /\ mc_result.p5 < mc_result.median
    /\ mc_result.median < mc_result.p95

\* C5 (as claimed): calculate_cvar(tier, 0.95) is exactly 1.3 times
\* calculate_var(tier, 0.95).
C5_CvarExactly13Var ==
    (confidence_level = 95 /\ {"var", "cvar"} \subseteq DOMAIN metrics) =>
        10 * metrics.cvar = 13 * metrics.var

\* C5 (amended): calculate_cvar(tier, 0.95) is 1.3 times
\* calculate_var(tier, 0.95) rounded to two decimals: the two differ by at
\* most 0.005.
C5_CvarIsRounded13Var ==
    (confidence_level = 95 /\ {"var", "cvar"} \subseteq DOMAIN metrics) =>
        Abs(10 * metrics.cvar - 13 * metrics.var) <= 5

\* Both values returned at 95% and the rounding visible.
C5_Witness ==
    /\ confidence_level = 95
    /\ {"var", "cvar"} \subseteq DOMAIN metrics
    /\ 10 * metrics.cvar # 13 * metrics.var

\* The plan and the assessment of a profile whose asset covers the target.
GoalMet == savings_plan # None /\ current_asset >= target_amount

\* C6 (as claimed): whenever current_asset >= target_amount, the plan has
\* target_months = 0, monthly_save = 0 and savings_rate = 0, and the
\* assessment has time_pressure = 0.
C6_GoalMetNothingToSave ==
    GoalMet =>
        /\ savings_plan.target_months = 0
        /\ savings_plan.monthly_save = 0
        /\ savings_plan.savings_rate = 0
        /\ risk_assessment.factors.time_pressure = 0

\* C6 (amended): whenever current_asset >= target_amount the assessment has
\* time_pressure = 0; the plan has target_months = 0, monthly_save = 0 and
\* savings_rate = 0 when the horizon is searched (or given as 0), and with a
\* horizon of n > 0 months given it keeps target_months = n and saves the
\* clamped minimum, savings_rate = 0.2 and monthly_save = 0.2 *
\* monthly_income.
C6_GoalMetSearchedOrGiven ==
    GoalMet =>
        /\ risk_assessment.factors.time_pressure = 0
        /\ IF target_months = NoHorizon \/ target_months = 0
           THEN /\ savings_plan.target_months = 0
                /\ savings_plan.monthly_save = 0
                /\ savings_plan.savings_rate = 0
           ELSE /\ savings_plan.target_months = target_months
                /\ savings_plan.savings_rate = 20
                /\ savings_plan.monthly_save = (monthly_income * Fen * 2) \div 10

\* The goal is met and the horizon was searched.
C6_Witness ==
    /\ GoalMet
    /\ target_months = NoHorizon
    /\ monthly_income > 0
    /\ savings_plan.target_months = 0
    /\ risk_assessment.factors.time_pressure = 0

\* The profile of the scenario but for its goal: asset 50,000, income 15,000,
\* age 30, assessed.
Scenario(g) ==
    /\ goal = g
    /\ current_asset = 50
    /\ monthly_income = 15
    /\ age = 30
    /\ risk_assessment # None

\* What the scenario states of the assessment: target 1,000,000, coverage
\* 0.05, gap 950,000, time pressure about 0.474, and with the deterministic
\* scorer a tier of medium or low.
ScenarioValues ==
    /\ calculate_target_amount(goal) = 1000
    /\ risk_assessment.factors.asset_coverage = 5
    /\ Factors.gap = 950
    /\ Abs(Factors.time_pressure - 474 * (FP \div 1000)) <= FP \div 1000
    /\ risk_assessment.factors.time_pressure = 47
    /\ ~risk_assessment.ml_enhanced =>
           risk_assessment.risk_level \in {"medium", "low"}

\* C7 (as claimed): the scenario's values for the goal text "buy a house".
C7_BuyAHouseInEnglish == Scenario(BuyAHouse) => ScenarioValues

\* C7 (amended): the scenario's values for a goal text that holds the house
\* keyword of the code (mai fang): target 1,000,000, coverage 0.05, gap
\* 950,000, time pressure about 0.474, deterministic tier medium or low.
C7_BuyHouseKeyword == Scenario(BuyHouse) => ScenarioValues

\* The scenario assessed by the deterministic scorer.
C7_Witness == Scenario(BuyHouse) /\ ~risk_assessment.ml_enhanced

\* C8 (as claimed): for tier low the 95% VaR is approximately 4.94 percent.
C8_LowVarIs494 ==
    (risk_level = "low" /\ confidence_level = 95 /\ "var" \in DOMAIN metrics) =>
        Abs(metrics.var - 494) <= 1

\* C8 (amended): for tier low the 95% VaR is |-0.05 + 1.645 * 0.03| * 100 =
\* 0.065 percent rounded to two decimals, that is approximately 0.07.
C8_LowVarIs007 ==
    (risk_level = "low" /\ confidence_level = 95 /\ "var" \in DOMAIN metrics) =>
        Abs(10 * metrics.var - 65) <= 5

C8_Witness ==
    risk_level = "low" /\ confidence_level = 95 /\ "var" \in DOMAIN metrics

\* The amounts returned for two goals, once both have been returned.
Both(g1, g2) == {g1, g2} \subseteq DOMAIN targets

\* C9 (as claimed): the bucket amounts are strictly ordered
\* house > freedom/retirement > education > car > generic.
C9_OrderAsClaimed ==
    /\ Both(BuyHouse, Freedom) => targets[BuyHouse] > targets[Freedom]
    /\ Both(BuyHouse, Retirement) => targets[BuyHouse] > targets[Retirement]
    /\ Both(Freedom, Education) => targets[Freedom] > targets[Education]
    /\ Both(Retirement, Education) => targets[Retirement] > targets[Education]
    /\ Both(Education, BuyCar) => targets[Education] > targets[BuyCar]
    /\ Both(BuyCar, Travel) => targets[BuyCar] > targets[Travel]

\* C9 (amended): the bucket amounts are ordered
\* freedom/retirement > house > education = generic > car.
C9_OrderOfAmounts ==
    /\ Both(Freedom, Retirement) => targets[Freedom] = targets[Retirement]
    /\ Both(Freedom, BuyHouse) => targets[Freedom] > targets[BuyHouse]
    /\ Both(BuyHouse, Education) => targets[BuyHouse] > targets[Education]
    /\ Both(Education, Travel) => targets[Education] = targets[Travel]
    /\ Both(Travel, BuyCar) => targets[Travel] > targets[BuyCar]

\* Every bucket has been asked for.
C9_Witness ==
    {BuyHouse, BuyCar, Education, Freedom, Retirement, Travel}
        \subseteq DOMAIN targets

\* C10 (as claimed): the returned risk_level is the one the thresholds give
\* for the returned risk_score: high iff risk_score >= 0.7, medium iff
\* 0.4 <= risk_score < 0.7, low iff risk_score < 0.4.
C10_LevelOfReturnedScore ==
    risk_assessment # None =>
        /\ risk_assessment.risk_level = "high"
               <=> risk_assessment.risk_score >= 70
        /\ risk_assessment.risk_level = "medium"
               <=> (risk_assessment.risk_score >= 40
                    /\ risk_assessment.risk_score < 70)
        /\ risk_assessment.risk_level = "low"
               <=> risk_assessment.risk_score < 40

\* C11 (as claimed): in every plan savings_rate is 0 only if target_months
\* is 0, and savings_rate never exceeds 0.6.
C11_RateZeroOnlyAtZeroMonths ==
    savings_plan # None =>
        /\ savings_plan.savings_rate = 0 => savings_plan.target_months = 0
        /\ savings_plan.savings_rate <= 60

\* C11 (amended): in every plan savings_rate is 0 only if target_months is 0
\* or monthly_income is 0, and savings_rate never exceeds 0.6.
C11_RateZeroOnlyWithoutMonthsOrIncome ==
    savings_plan # None =>
        /\ savings_plan.savings_rate = 0 =>
               (savings_plan.target_months = 0 \/ monthly_income = 0)
        /\ savings_plan.savings_rate <= 60

\* A plan over a horizon of some months, without income, at rate 0.
C11_Witness ==
    /\ savings_plan # None
    /\ savings_plan.target_months > 0
    /\ monthly_income = 0
    /\ savings_plan.savings_rate = 0

\* C12 (as claimed): every plan returned has 0 <= target_months <= 600, and
\* the horizon search makes at most 600 compounding steps.
C12_HorizonAtMost600 ==
    /\ months <= MaxSearchMonths
    /\ savings_plan # None =>
           /\ savings_plan.target_months >= 0
           /\ savings_plan.target_months <= MaxSearchMonths

\* C13: when the learned scorer is installed and its prediction raises in a
\* call, the call returns the deterministic scorer's assessment with
\* ml_enhanced false and leaves the model and the scaler installed, so that
\* the next call tries the learned scorer again.
C13_RaiseFallsBackForThatCall ==
    [][(/\ pc = "call" /\ pc' = "assessed"
        /\ ml_model = "trained" /\ scaler = "fitted"
        /\ ~risk_assessment'.ml_enhanced)
       => /\ risk_assessment' =
                 Assessment(Factors, _calculate_risk_score_traditional(Factors),
                            FALSE)
          /\ ml_model' = "trained"
          /\ scaler' = "fitted"]_vars

\* A call that fell back, followed by a call that the learned scorer
\* answered.
C13_Witness ==
    /\ ml_model = "trained"
    /\ \E i \in 1..(Len(assessments) - 1) :
           ~assessments[i].ml_enhanced /\ assessments[i + 1].ml_enhanced

\* C14: when the library is missing or _initialize_ml_model fails at any
\* step, construction ends with ml_model and scaler both unset, they stay
\* unset, and every call of calculate_risk_tolerance made afterwards returns
\* ml_enhanced false.
C14_NoScorerForTheLifetime ==
    /\ [](pc \in {"ready", "call", "assessed"} =>
              /\ Constructed
              /\ ml_model = "none" =>
                     \A i \in DOMAIN assessments : ~assessments[i].ml_enhanced)
    /\ [][(pc \in {"ready", "call", "assessed"} /\ ml_model = "none")
          => (ml_model' = "none" /\ scaler' = "none")]_vars

\* Every call of a lifetime without the learned scorer has been answered.
C14_Witness ==
    /\ pc = "assessed"
    /\ ml_model = "none" /\ scaler = "none"
    /\ Len(assessments) >= 2
    /\ \A i \in DOMAIN assessments : ~assessments[i].ml_enhanced

\* The tier-keyed operations, by the names SpecTier records them under.
TierKeyed ==
    {"sharpe", "sortino", "var", "cvar", "savings", "allocation", "reason"}

\* C15: a tier-keyed operation called with a key other than low, medium or
\* high raises and returns no result, from a default tier or otherwise.
C15_UnknownTierRaises ==
    risk_level \notin {"low", "medium", "high"} =>
        /\ metrics = Empty
        /\ savings_plan = None
        /\ allocation = None
        /\ reason = None
        /\ raised \subseteq TierKeyed

\* All seven operations have been called with an unknown key, and raised.
C15_Witness ==
    /\ risk_level \notin {"low", "medium", "high"}
    /\ raised = TierKeyed

\* The outcomes of the first n trials of a request that runs alone, from the
\* generator state the process starts in.
RECURSIVE AloneValues(_)
AloneValues(n) ==
    IF n = 0 THEN Empty
    ELSE Append1(AloneValues(n - 1), TrialFrom((n - 1) * months))

\* C16 (as claimed): no shared mutable state is touched while requests are
\* computed (the generator of the random module, shared by the process, is
\* as the process started it), and each of two interleaved requests gets the
\* result it gets when run alone.
C16_InterleavedAsAlone ==
    /\ rng = 0
    /\ \A r \in DOMAIN requests :
           requests[r].mc_result # None =>
               requests[r].mc_result
                   = Statistics(AloneValues(simulations), simulations)

\* A recommendation without its Monte Carlo statistics.
NonMonteCarlo(rec) ==
    [f \in DOMAIN rec \ {"monteCarloSimulation"} |-> rec[f]]

\* A response without the Monte Carlo statistics of its recommendations.
Output(response) ==
    [recommendedRisk |-> response.recommendedRisk,
     recommendations |->
         [t \in DOMAIN response.recommendations |->
              NonMonteCarlo(response.recommendations[t])]]

\* C17: with the deterministic scorer, the responses to calls with the same
\* request body agree on every field other than the Monte Carlo statistics
\* (the primary pick and, per tier, recommendedRisk, reason, monthlySave,
\* targetMonths, targetAmount, expectedFinalAmount, the metrics, the
\* allocation, riskScore and riskFactors).
C17_RunsAgreeOutsideMonteCarlo ==
    \A i, j \in DOMAIN requests : Output(requests[i]) = Output(requests[j])

\* Two calls answered, their Monte Carlo statistics different.
C17_Witness ==
    /\ pc = "request"
    /\ Len(requests) >= 2
    /\ requests[1] # requests[2]
    /\ \E t \in Tiers :
           requests[1].recommendations[t].monteCarloSimulation
               # requests[2].recommendations[t].monteCarloSimulation

\* C18: a response holds exactly one recommendation for each of low, medium
\* and high, each tagged with its own tier; its top-level recommendedRisk is
\* the tier of the one assessment made for the call; targetAmount, riskScore
\* and riskFactors are the same in the three recommendations.
C18_ThreeTiersOnePick ==
    /\ Len(assessments) \in {Len(requests), Len(requests) + 1}
    /\ \A i \in DOMAIN requests :
           LET recs == requests[i].recommendations
           IN  /\ requests[i].success
               /\ DOMAIN recs = Tiers
               /\ \A t \in Tiers : recs[t].recommendedRisk = t
               /\ requests[i].recommendedRisk = assessments[i].risk_level
               /\ \A t, u \in Tiers :
                      /\ recs[t].targetAmount = recs[u].targetAmount
                      /\ recs[t].riskScore = recs[u].riskScore
                      /\ recs[t].riskFactors = recs[u].riskFactors
               /\ \A t \in Tiers :
                      /\ recs[t].riskScore = assessments[i].risk_score
                      /\ recs[t].riskFactors = assessments[i].factors

\* A response whose primary pick is not the tier the loop ends on, and whose
\* three plans differ.
C18_Witness ==
    /\ Len(requests) >= 1
    /\ requests[1].recommendedRisk # TierOrder[Len(TierOrder)]
    /\ requests[1].recommendations["low"].targetMonths
           # requests[1].recommendations["high"].targetMonths

\* C20 (as claimed): the age of the request body, 30 when the body has none,
\* determines the assessment: the ageFactor reported in every recommendation
\* is max(0.5, 1 - (age - 25) / 50) for that age, rounded to two places.
C20_AgeFactorOfSuppliedAge ==
    \A i \in DOMAIN requests : \A t \in Tiers :
        requests[i].recommendations[t].riskFactors.age_factor
            = Round(AgeFactor(IF age = NoAge THEN DefaultAge ELSE age), FP, 2)

\* C19: on a valid profile (zero asset and zero income included) and any
\* tier no operation of the engine divides by zero; without savings
\* capacity the horizon of the assessment is the sentinel 999 (time pressure
\* 100 / 999, reported as 0.10); a volatility of zero gives Sharpe and
\* Sortino 0, a monthly return of zero the annuity factor n, a target
\* amount of zero the asset coverage 0.
C19_NoDivisionByZero ==
    /\ raised = {}
    /\ (/\ risk_assessment # None
        /\ monthly_income = 0
        /\ target_amount - current_asset > 0)
           => /\ MonthsToTarget(target_amount - current_asset, monthly_income)
                     = <<999, 1>>
              /\ risk_assessment.factors.time_pressure = 10
    /\ SharpeRatio(risk_profiles[risk_level].expected_return, 0) = 0
    /\ SortinoRatio(risk_profiles[risk_level].expected_return, 0) = 0
    /\ AnnuityFactor(0, target_months) = target_months * AnnuityScale
    /\ AssetCoverage(current_asset, 0) = 0

\* Every operation has returned for a profile without asset and income.
C19_Witness ==
    /\ pc = "call"
    /\ current_asset = 0 /\ monthly_income = 0
    /\ target_months # 0
    /\ risk_assessment # None /\ savings_plan # None
    /\ mc_result # None /\ allocation # None
    /\ DOMAIN metrics = {"sharpe", "sortino"}
    /\ savings_plan.monthly_save = 0

\* <<accumulated, below>> after the passes lo..hi of the loop of lines
\* 389-391 started from acc: the amount accumulated, and whether every pass
\* started below the target.  The range is halved at each level.
RECURSIVE Passes(_, _, _, _, _, _)
Passes(acc, k, save, target, lo, hi) ==
    IF lo > hi THEN <<acc, TRUE>>
    ELSE IF lo = hi THEN <<Compound(acc, k, save), acc < target>>
    ELSE LET mid == (lo + hi) \div 2
             half == Passes(acc, k, save, target, lo, mid)
         IN  IF half[1] \in Int
             THEN LET rest == Passes(half[1], k, save, target, mid + 1, hi)
                  IN  <<rest[1], half[2] /\ rest[2]>>
             ELSE half

\* A plan returned by the search for the horizon (target above the asset).
Searched ==
    /\ pc = "done"
    /\ target_months = NoHorizon
    /\ target_amount > current_asset
    /\ savings_plan # None

\* C21: with the horizon unknown and the target above the asset, the
\* returned target_months is the least n in 1..600 after which the
\* accumulation with 0.3 * monthly_income a month has reached the target, or
\* 600 when there is none; with an income the returned rate is 0.3 and the
\* monthly saving 0.3 * monthly_income.
C21_LeastMonthsOrCap ==
    Searched =>
        LET n == savings_plan.target_months
            run == Passes(current_asset * Fen, AnnualReturn, SearchSave,
                          target_amount * Fen, 1, n)
        IN  /\ n \in 1..MaxSearchMonths
            /\ run[2]
            /\ run[1] >= target_amount * Fen \/ n = MaxSearchMonths
            /\ monthly_income > 0 =>
                   /\ savings_plan.savings_rate = 30
                   /\ savings_plan.monthly_save = SearchSave

\* A search that ended on the target after more than one month, below the cap.
C21_Witness ==
    /\ Searched
    /\ monthly_income > 0
    /\ savings_plan.target_months \in 2..(MaxSearchMonths - 1)
    /\ accumulated >= target_amount * Fen

\* A plan returned for a given horizon of at least a month and an income.
GivenPlan ==
    /\ pc = "done"
    /\ savings_plan # None
    /\ target_months \notin {NoHorizon, 0}
    /\ monthly_income > 0

\* The saving the annuity equation asks for (lines 396-405).
Asked ==
    RequiredSave(current_asset * Fen, target_amount * Fen, AnnualReturn,
                 target_months)

\* C22 (as claimed): in every returned plan monthly_save equals
\* monthly_income times the returned savings_rate.
C22_SaveIsIncomeTimesReturnedRate ==
    (pc = "done" /\ savings_plan # None) =>
        savings_plan.monthly_save
            = monthly_income * (Fen \div 100) * savings_plan.savings_rate

\* C22 (amended): monthly_save is monthly_income times the clamped rate
\* before that rate is rounded to two places for the plan, so it lies within
\* half a hundredth of the income of monthly_income times the returned
\* savings_rate; it equals that product when the annuity equation asks for a
\* payment of 0 (rate 0.20) or for more than 60% of the income (rate 0.60).
C22_SaveFromClampedRate ==
    (pc = "done" /\ savings_plan # None) =>
        LET hundredth == monthly_income * (Fen \div 100)
            rate == savings_plan.savings_rate
            save == savings_plan.monthly_save
        IN  /\ 2 * Abs(save - hundredth * rate) <= hundredth + 2
            /\ (GivenPlan /\ Asked = 0) =>
                   rate = 20 /\ save = hundredth * 20
            /\ (GivenPlan /\ Asked \div 6 > (monthly_income * Fen) \div 10) =>
                   rate = 60 /\ save = hundredth * 60

\* Plans returned at both ends of the clamp and inside it.
C22_Witness ==
    /\ GivenPlan
    /\ Asked \div 6 > (monthly_income * Fen) \div 10
    /\ savings_plan.savings_rate = 60
    /\ savings_plan.monthly_save > 0

\* months_to_target of a gap and an income lies in the band of 12 to 60
\* months.
InBand(gap, income) ==
    /\ gap > 0
    /\ LET m == MonthsToTarget(gap, income)
       IN  12 * m[2] <= m[1] /\ m[1] < 60 * m[2]

\* C23 (as claimed): within the band of 12 to 60 months the time pressure
\* decreases as months_to_target grows: for the assessed profile and the
\* same gap with a lower income (so with more months to the target), both in
\* the band, the time pressure of the longer horizon is the smaller one.
C23_PressureDecreasesInBand ==
    risk_assessment # None =>
        \A lower \in Incomes :
            (/\ lower < monthly_income
             /\ InBand(Factors.gap, monthly_income)
             /\ InBand(Factors.gap, lower))
                => TimePressure(Factors.gap, lower)
                       < TimePressure(Factors.gap, monthly_income)

\* The months after which the time factor is 1.0.
FullHorizon == 120

\* C24: for a fixed tier, asset and target amount the stock weight never
\* decreases and the bond weight never increases as the horizon grows (from
\* each horizon to the next month), and both are constant for horizons of
\* 120 months and more.
C24_StocksUpBondsDownWithHorizon ==
    allocation # None =>
        LET next == optimize_asset_allocation(risk_level, current_asset,
                                              target_amount, target_months + 1)
            full == optimize_asset_allocation(risk_level, current_asset,
                                              target_amount, FullHorizon)
        IN  /\ next.stocks >= allocation.stocks
            /\ next.bonds <= allocation.bonds
            /\ target_months >= FullHorizon =>
                   /\ allocation.stocks = full.stocks
                   /\ allocation.bonds = full.bonds

\* An allocation for a horizon below 120 months with fewer stocks and more
\* bonds than at 120 months.
C24_Witness ==
    /\ allocation # None
    /\ target_months < FullHorizon
    /\ LET full == optimize_asset_allocation(risk_level, current_asset,
                                             target_amount, FullHorizon)
       IN  allocation.stocks < full.stocks /\ allocation.bonds > full.bonds

\* C25 (as claimed): when the goal is already met (gap <= 0) the
\* deterministic scorer recommends the conservative tier: the risk_level of
\* the assessment is low.
C25_GoalMetIsLow ==
    (/\ risk_assessment # None
     /\ ~risk_assessment.ml_enhanced
     /\ Factors.gap <= 0)
        => risk_assessment.risk_level = "low"

\* The factor a clause after the asset-coverage clause is about.
ClauseKind(clause) ==
    IF clause \in {"time_tight", "time_ample", "time_moderate"} THEN "time"
    ELSE IF clause \in {"young", "older"} THEN "age"
    ELSE IF clause \in {"income_stable", "income_unstable"} THEN "income"
    ELSE "other"

\* An age clause, an income-stability clause applies to the factors (in
\* hundredths).
AgeClauseApplies(f) == f.age_factor > 80 \/ f.age_factor < 50
IncomeClauseApplies(f) == f.income_stability > 70 \/ f.income_stability < 50

\* C26: the rationale holds at most 3 clauses, the first three applicable
\* ones in the order asset coverage, time pressure, age, income stability;
\* an asset-coverage clause and a time-pressure clause are always there, so
\* the income-stability clause appears only when no age clause applies.
C26_FirstThreeClauses ==
    reason # None =>
        LET clauses == Tail(reason)
            f == risk_assessment.factors
            kinds == [i \in 2..Len(clauses) |-> ClauseKind(clauses[i])]
        IN  /\ reason[1] = risk_name[risk_assessment.risk_level]
            /\ Len(clauses) \in 2..3
            /\ clauses[1] = Reasons(f)[1]
            /\ kinds[2] = "time"
            /\ AgeClauseApplies(f) => Len(clauses) = 3 /\ kinds[3] = "age"
            /\ (~AgeClauseApplies(f) /\ IncomeClauseApplies(f))
                   => Len(clauses) = 3 /\ kinds[3] = "income"
            /\ (~AgeClauseApplies(f) /\ ~IncomeClauseApplies(f))
                   => Len(clauses) = 2
            /\ (\E i \in DOMAIN kinds : kinds[i] = "income")
                   => ~AgeClauseApplies(f)

\* A rationale whose third clause is the income-stability one.
C26_Witness ==
    /\ reason # None
    /\ Len(reason) = 4
    /\ ClauseKind(reason[4]) = "income"

\* A search that ended before the cap of 600 months.
ReachedBeforeCap ==
    /\ Searched
    /\ savings_plan.target_months \in 1..(MaxSearchMonths - 1)

C29_MonthsFallWithReturn ==
    \A i \in DOMAIN requests :
        LET recs == requests[i].recommendations
        IN  /\ recs["high"].targetMonths <= recs["medium"].targetMonths
            /\ recs["medium"].targetMonths <= recs["low"].targetMonths
            /\ \A t, u \in Tiers : recs[t].monthlySave = recs[u].monthlySave

\* A response with a positive saving whose three horizons differ.
C29_Witness ==
    \E i \in DOMAIN requests :
        LET recs == requests[i].recommendations
        IN  /\ recs["high"].targetMonths < recs["medium"].targetMonths
            /\ recs["medium"].targetMonths < recs["low"].targetMonths
            /\ recs["low"].targetMonths < MaxSearchMonths
            /\ recs["low"].monthlySave > 0

\* An assessment by the deterministic scorer of a profile whose goal is not
\* met.
TraditionalUnmet ==
    /\ risk_assessment # None
    /\ ~risk_assessment.ml_enhanced
    /\ Factors.gap > 0

\* One of the four factors is 0.
SomeFactorZero ==
    \/ Factors.asset_coverage = 0
    \/ Factors.time_pressure = 0
    \/ Factors.age_factor = 0
    \/ Factors.income_stability = 0

\* C30: with the deterministic scorer and gap > 0, the score is 0 and the
\* tier is low whenever one of the factors is 0, in particular whenever
\* current_asset = 0 or monthly_income = 0, the amplification by 1.2 for
\* time_pressure > 0.7 and asset_coverage < 0.3 included.
C30_ZeroFactorZeroScore ==
    /\ (TraditionalUnmet /\ (current_asset = 0 \/ monthly_income = 0))
           => SomeFactorZero
    /\ (TraditionalUnmet /\ SomeFactorZero)
           => /\ risk_assessment.risk_score = 0
              /\ risk_assessment.risk_level = "low"

\* No asset, an income, and a time pressure that brings the amplification.
C30_Witness ==
    /\ TraditionalUnmet
    /\ current_asset = 0
    /\ monthly_income > 0
    /\ Factors.time_pressure > (7 * FP) \div 10
    /\ Factors.income_stability > 0
    /\ risk_assessment.risk_score = 0

(***************************************************************************)
(* The story stream of main.py and the image cache of cache_service.py,    *)
(* for the requests of one cache key.  A chapter is named by its number in *)
(* the story; an image URL records the chapter whose text made its prompt. *)
(***************************************************************************)
NumChapters == 3
Chapters == [i \in 1..NumChapters |-> i - 1]
ChapterIndexes == 0..(NumChapters - 1)

\* dashscope_image_service.generate_image on the prompt built from `chapter`.
generate_image(chapter) == [depicts |-> chapter]

\* cache_service.check_image_cache: the URL filed under the index, or None.
check_image_cache(cache, index) == cache[index]

\* cache_service.save_image_to_cache: files the URL under the index.
save_image_to_cache(cache, index, image_url) ==
    [cache EXCEPT ![index] = image_url]

\* One pass of the loop of _generate_chapter_images_with_updates over
\* `chapters`, at position i of enumerate(chapters); `generated` tells whether
\* the image service returned a URL within its retries.  Gives the image
\* cache after the pass and the updates the pass yields.
_generate_chapter_images_with_updates(cache, chapters, i, generated) ==
    LET chapter == chapters[i + 1]
        cached_image == check_image_cache(cache, i)
        image_url == generate_image(chapter)
        image_generating == [type |-> "image_generating", chapterIndex |-> i,
                             chapterTitle |-> chapter]
    IN  IF cached_image # None
        THEN [cache |-> cache,
              updates |-> <<[type |-> "image_complete", chapterIndex |-> i,
                             imageUrl |-> cached_image, from_cache |-> TRUE]>>]
        ELSE IF generated
        THEN [cache |-> save_image_to_cache(cache, i, image_url),
              updates |-> <<image_generating,
                            [type |-> "image_complete", chapterIndex |-> i,
                             imageUrl |-> image_url]>>]
        ELSE [cache |-> cache,
              updates |-> <<image_generating,
                            [type |-> "image_failed", chapterIndex |-> i]>>]

\* Lines 1442-1474: one pass of the chapter loop of the cache-hit branch, for
\* chapter i of the cached story.
CachedChapterPass(cache, chapters, i, generated) ==
    LET chapter == chapters[i + 1]
        cached_image == check_image_cache(cache, i)
    IN  IF cached_image # None
        THEN [cache |-> cache,
              updates |-> <<[type |-> "image_complete", chapterIndex |-> i,
                             imageUrl |-> cached_image, from_cache |-> TRUE]>>]
        ELSE LET single_chapter_list == <<chapter>>
                 pass == _generate_chapter_images_with_updates(
                             cache, single_chapter_list, 0, generated)
             IN  [cache |-> pass.cache,
                  updates |-> [k \in DOMAIN pass.updates |->
                                  [pass.updates[k] EXCEPT !.chapterIndex = i]]]

StoryUnchanged ==
    UNCHANGED <<model_vars, profile_vars, arg_vars, local_vars, risk_vars,
                savings_plan, metrics, allocation, mc_result, targets,
                outcome_vars, request_vars>>

StoryInit ==
    /\ pc = "request"
    /\ ml_model = "none" /\ scaler = "none"
    /\ IdleProfile /\ IdleArgs /\ IdleLocals
    /\ risk_assessment = None /\ assessments = Empty
    /\ savings_plan = None /\ metrics = Empty
    /\ allocation = None /\ mc_result = None /\ targets = Empty
    /\ reason = None /\ raised = {}
    /\ rng = 0 /\ requests = Empty /\ recommendations = Empty
    /\ story_cache = None
    /\ image_cache = [i \in ChapterIndexes |-> None]
    /\ events = Empty
    /\ chapter_index = 0

\* Lines 1420-1428 and 1479-1576: no story is cached for the key; the story
\* is generated and saved, and its images follow if the image service is
\* available.
StreamMiss(available) ==
    /\ pc = "request"
    /\ story_cache = None
    /\ story_cache' = Chapters
    /\ events' = Empty
    /\ chapter_index' = 0
    /\ pc' = IF available THEN "generated" ELSE "request"
    /\ UNCHANGED image_cache
    /\ StoryUnchanged

\* Line 1578: the images of a newly generated story, one chapter a step.
GeneratedChapter(generated) ==
    /\ pc = "generated"
    /\ chapter_index < Len(story_cache)
    /\ LET pass == _generate_chapter_images_with_updates(
                       image_cache, story_cache, chapter_index, generated)
       IN  /\ image_cache' = pass.cache
           /\ events' = events \o pass.updates
    /\ chapter_index' = chapter_index + 1
    /\ UNCHANGED <<pc, story_cache>>
    /\ StoryUnchanged

\* Lines 1429-1441: the story is cached for the key.
StreamHit(available) ==
    /\ pc = "request"
    /\ story_cache # None
    /\ events' = Empty
    /\ chapter_index' = 0
    /\ pc' = IF available THEN "cached" ELSE "request"
    /\ UNCHANGED <<story_cache, image_cache>>
    /\ StoryUnchanged

\* Lines 1442-1474: the images of a cached story, one chapter a step.
CachedChapter(generated) ==
    /\ pc = "cached"
    /\ chapter_index < Len(story_cache)
    /\ LET pass == CachedChapterPass(image_cache, story_cache, chapter_index,
                                     generated)
       IN  /\ image_cache' = pass.cache
           /\ events' = events \o pass.updates
    /\ chapter_index' = chapter_index + 1
    /\ UNCHANGED <<pc, story_cache>>
    /\ StoryUnchanged

\* Line 1476 and the end of the generator: the stream is over.
StreamReturn ==
    /\ pc \in {"generated", "cached"}
    /\ chapter_index = Len(story_cache)
    /\ pc' = "request"
    /\ UNCHANGED <<story_cache, image_cache, events, chapter_index>>
    /\ StoryUnchanged

StoryNext ==
    \/ \E available \in BOOLEAN : StreamMiss(available)
    \/ \E generated \in BOOLEAN : GeneratedChapter(generated)
    \/ \E available \in BOOLEAN : StreamHit(available)
    \/ \E generated \in BOOLEAN : CachedChapter(generated)
    \/ StreamReturn

SpecStoryCache == StoryInit /\ [][StoryNext]_vars

\* C27: on a story-cache hit, the image_complete event of chapter i carries an
\* image of chapter i (the one cached under i or one newly generated for it),
\* and the image cache holds under index i only an image of chapter i.
C27_CacheHitImagesByChapter ==
    pc = "cached" =>
        /\ \A k \in DOMAIN events :
               events[k].type = "image_complete" =>
                   events[k].imageUrl
                       = generate_image(story_cache[events[k].chapterIndex + 1])
        /\ \A i \in ChapterIndexes :
               image_cache[i] # None =>
                   image_cache[i] = generate_image(story_cache[i + 1])

====
